---- MODULE Spec2Model ----
(***************************************************************************)
(* Hybrid dynamic-thresholding and rule-evaluation engine of the           *)
(* repository (src/Automated/automodel.py, vifinal2.py, pipeline.py).      *)
(*                                                                         *)
(* Time is counted in ticks; one minute is Minute ticks, so that events    *)
(* can carry sub-minute timestamps while the sampler steps by one minute.  *)
(* Real numbers are exact rationals <<n, d>> (d > 0, lowest terms).        *)
(***************************************************************************)
EXTENDS Integers, Sequences, FiniteSets, TLC

VARIABLES
    df,             \* the event batch (rows with timestamp_dt, http_status)
    op,             \* the operation that produced the current state
    args,           \* the arguments of that operation
    sampled,        \* the samples the sliding-window sampler returned
    windows,        \* the window starts the sampler visited, in emission order
    result,         \* what the threshold entry point returned (or that it raised)
    rules,          \* the Rule objects that are defined
    verdict,        \* what the last Rule / CombinedRule evaluate call did
    grouped,        \* the aggregated frame: one row per stream and time bin
    detected,       \* what the last detector call did
    cycle,          \* what the last run_pipeline cycle did
    time_interval,  \* the aggregation interval of grouped, in minutes
    journey_group,  \* the journey table analyze_request_journeys returned
    forecast,       \* what forecast_journey_anomalies returned
    history,        \* the library's seed and the calls made so far, with results
    session,        \* st.session_state of the dashboard
    report,         \* what the last run of main / of the dashboard script showed
    loop,           \* where a polling script stands in its while loop
    last_fetch_time,    \* the module global of fetch_and_process.py
    utcnow,         \* the clock datetime.utcnow() reads
    queries         \* the calls of fetch_new_logs made so far

vars == <<df, op, args, sampled, windows, result, rules, verdict,
          grouped, detected, cycle, time_interval, journey_group, forecast,
          history, session, report, loop, last_fetch_time, utcnow, queries>>

threshold_vars == <<args, sampled, windows, result>>
rule_vars == <<rules, verdict>>
journey_vars == <<journey_group, forecast>>
detect_vars == <<grouped, detected, cycle, time_interval, journey_vars>>
frame_vars == <<grouped, time_interval>>
app_vars == <<session, report>>
poll_vars == <<loop, last_fetch_time, utcnow, queries>>

----------------------------------------------------------------------------
(* Bounds of the model *)

Minute == 2             \* ticks per minute
MaxTime == 5            \* largest timestamp (ticks) of an enumerated batch
MaxEvents == 3          \* most rows of an enumerated batch
MaxWindow == 2          \* longest window (minutes) tried on enumerated batches
CoarseSpan == 4         \* span (minutes) of the batches stamped on whole minutes
MaxRuleEvents == 2      \* most rows of a batch a rule is evaluated on
MaxBin == 9             \* last time bin of an enumerated stream
MaxTokens == 2          \* most comma-separated pieces of a typed selection
MaxRuns == 2            \* most runs of the dashboard script in a session
PlantedBins == 20        \* bins of a stream with a planted spike in its last bin
TrendBins == 10         \* bins of a stream with a steady trend
MaxLogs == 2            \* most records of a log table
MaxCalls == 4           \* most recorded calls of a process
MaxSeed == 2            \* seeds of the numerical libraries told apart

(* Program constants *)

BaselinePercentile == 900   \* np.percentile(normal_values, 90), per mille
MinExceedances == 10        \* if len(exceedances) < 10
NClusters == 2              \* KMeans(n_clusters=2)
BinMinutes == 15            \* preprocess_data(df, time_interval='15min')

NoValue == <<>>            \* None where a number is expected
Endpoints == <<"/login", "/pay">>
None == <<>>                \* an absent object (no upload, no session entry)

----------------------------------------------------------------------------
(* Exact rational arithmetic *)

Abs(x) == IF x < 0 THEN -x ELSE x

RECURSIVE GCD(_, _)
GCD(a, b) == IF b = 0 THEN a ELSE GCD(b, a % b)

Rat(n, d) ==
    LET g == GCD(Abs(n), Abs(d))
        s == IF d < 0 THEN -1 ELSE 1
    IN  IF n = 0 THEN <<0, 1>> ELSE <<(s * n) \div g, (s * d) \div g>>

RInt(n) == <<n, 1>>
RAdd(a, b) == Rat(a[1] * b[2] + b[1] * a[2], a[2] * b[2])
RSub(a, b) == Rat(a[1] * b[2] - b[1] * a[2], a[2] * b[2])
RMul(a, b) == Rat(a[1] * b[1], a[2] * b[2])
RDivInt(a, k) == Rat(a[1], a[2] * k)
RLt(a, b) == a[1] * b[2] < b[1] * a[2]
RLe(a, b) == a[1] * b[2] <= b[1] * a[2]
RGt(a, b) == RLt(b, a)
RGe(a, b) == RLe(b, a)

RECURSIVE RSum(_)
RSum(s) ==
    IF s = <<>> THEN RInt(0)
    ELSE IF Len(s) = 1 THEN s[1]
    ELSE LET half == Len(s) \div 2
         IN  RAdd(RSum(SubSeq(s, 1, half)), RSum(SubSeq(s, half + 1, Len(s))))

Floor(a) == a[1] \div a[2]

\* float('nan'): every comparison with it is false
NaN == <<0, 0>>
IsNaN(a) == a = NaN

\* float('inf'), as the division of a positive count by zero gives it
Inf == <<1, 0>>

\* Series / Series on counts: 0 / 0 is NaN and k / 0 is inf
py_divide(n, d) == IF d # 0 THEN Rat(n, d) ELSE IF n = 0 THEN NaN ELSE Inf

\* The values of a sequence that are numbers
NotNaN(s) == SelectSeq(s, LAMBDA v : ~IsNaN(v))

----------------------------------------------------------------------------
(* Numeric library calls used by the program *)

\* np.percentile(a, q) with the default linear interpolation; qpm is q in per
\* mille of the [0, 1] scale (ev_target_quantile * 1000). a is non-empty; a
\* NaN anywhere in a makes the result NaN.
np_percentile(a, qpm) ==
    LET s == SortSeq(a, RLt)
        n == Len(s)
        pos == (n - 1) * qpm
        lo == (pos \div 1000) + 1
        hi == IF lo < n THEN lo + 1 ELSE n
    IN  IF NotNaN(a) # a THEN NaN
        ELSE RAdd(s[lo], RMul(Rat(pos % 1000, 1000), RSub(s[hi], s[lo])))

\* int(x): truncation toward zero.
py_int(x) == IF x[1] >= 0 THEN RInt(x[1] \div x[2]) ELSE RInt(-((-x[1]) \div x[2]))

\* round(x, 2): the nearest hundredth. On an exact decimal tie the binary
\* floating-point value decides, so both neighbours are possible outcomes.
py_round2(x) ==
    LET y == RMul(x, RInt(100))
        f == Floor(y)
        twice == RSub(RMul(y, RInt(2)), RInt(2 * f))   \* 2 * fractional part
    IN  IF IsNaN(x) THEN {NaN}
        ELSE IF RLt(twice, RInt(1)) THEN {Rat(f, 100)}
        ELSE IF RGt(twice, RInt(1)) THEN {Rat(f + 1, 100)}
        ELSE {Rat(f, 100), Rat(f + 1, 100)}

\* Series.mean() of a non-empty column: NaN values are skipped, and the mean
\* of no value is NaN.
mean(s) ==
    LET values == NotNaN(s)
    IN  IF values = <<>> THEN NaN ELSE RDivInt(RSum(values), Len(values))

SeqToSet(s) == {s[i] : i \in 1..Len(s)}

Column(rows, f) == [i \in 1..Len(rows) |-> rows[i][f]]

\* Series.min() / Series.max() of the timestamp column (rows non-empty).
ts_min(rows) == CHOOSE t \in SeqToSet(Column(rows, "timestamp_dt")) :
                    \A u \in SeqToSet(Column(rows, "timestamp_dt")) : t <= u
ts_max(rows) == CHOOSE t \in SeqToSet(Column(rows, "timestamp_dt")) :
                    \A u \in SeqToSet(Column(rows, "timestamp_dt")) : t >= u

----------------------------------------------------------------------------
(* Condition functions: the closed set of callables bound into rules *)

count_status(rows, status_code) ==
    Len(SelectSeq(rows, LAMBDA r : r.http_status = status_code))

count_combined_4xx_5xx(rows) ==
    Len(SelectSeq(rows, LAMBDA r : r.http_status >= 400 /\ r.http_status <= 599))

\* df["cpu_usage_percent"].mean() if not df.empty else 0
avg_cpu_usage(rows) ==
    IF rows = <<>> THEN RInt(0) ELSE mean(Column(rows, "cpu_usage_percent"))

\* df["avg_response_time"].mean() if not df.empty else 0
avg_response_time(rows) ==
    IF rows = <<>> THEN RInt(0) ELSE mean(Column(rows, "avg_response_time"))

\* lambda d: d['error_rate'].mean() if not d.empty else 0
error_rate_mean(rows) ==
    IF rows = <<>> THEN RInt(0) ELSE mean(Column(rows, "error_rate"))

\* POST requests whose Browser contains "Safari" (case-insensitive)
count_post_safari(rows) ==
    Len(SelectSeq(rows, LAMBDA r :
            r.http_method = "POST" /\ r.Browser \in {"Safari 13.1.2"}))

\* Browser.str.upper() == "UNKNOWN"
count_unknown_browser(rows) ==
    Len(SelectSeq(rows, LAMBDA r : r.Browser \in {"UNKNOWN"}))

CountConditions == {"count_500", "count_404", "count_4xx_5xx"}
AvgConditions == {"avg_cpu_usage"}

\* condition_func(window_df)
Apply(condition_func, rows) ==
    CASE condition_func = "count_500" -> RInt(count_status(rows, 500))
      [] condition_func = "count_404" -> RInt(count_status(rows, 404))
      [] condition_func = "count_4xx_5xx" -> RInt(count_combined_4xx_5xx(rows))
      [] condition_func = "count_403" -> RInt(count_status(rows, 403))
      [] condition_func = "count_post_safari" -> RInt(count_post_safari(rows))
      [] condition_func = "count_unknown_browser" -> RInt(count_unknown_browser(rows))
      [] condition_func = "avg_cpu_usage" -> avg_cpu_usage(rows)
      [] condition_func = "avg_response_time" -> avg_response_time(rows)
      [] condition_func = "error_rate" -> error_rate_mean(rows)

----------------------------------------------------------------------------
(* SlidingWindowSampler *)

\* Mutants of the loop condition: the window length forgotten, and the window
\* that ends exactly at the last timestamp dropped.
window_fits_ignoring_length(current_time, window_delta, end_time) ==
    current_time <= end_time

window_fits_strictly(current_time, window_delta, end_time) ==
    current_time + window_delta < end_time

\* while current_time + window_delta <= end_time
window_fits(current_time, window_delta, end_time) ==
    current_time + window_delta <= end_time

\* The while loop of compute_sliding_window_metrics. current_time starts at
\* start_time and advances by one minute per iteration, so iteration k (from 0)
\* runs exactly when the loop condition held at every iteration up to k: the
\* loop makes k iterations, k the first count at which the condition fails. Each
\* iteration appends one entry: the window start and the value condition_func
\* returned for the rows of [current_time, current_time + window_delta).
loop_iterations(start_time, window_delta, end_time) ==
    CHOOSE k \in 0..((end_time - start_time) \div Minute + 1) :
        /\ ~window_fits(start_time + k * Minute, window_delta, end_time)
        /\ \A j \in 0..(k - 1) :
                window_fits(start_time + j * Minute, window_delta, end_time)

\* Mutant: the end of the window included.
in_closed_window(r, current_time, window_delta) ==
    /\ r.timestamp_dt >= current_time
    /\ r.timestamp_dt <= current_time + window_delta

\* (df_local["timestamp_dt"] >= current_time) &
\* (df_local["timestamp_dt"] < current_time + window_delta)
in_window(r, current_time, window_delta) ==
    /\ r.timestamp_dt >= current_time
    /\ r.timestamp_dt < current_time + window_delta

sliding_loop(rows, window_delta, end_time, start_time, condition_func) ==
    [k \in 1..loop_iterations(start_time, window_delta, end_time) |->
        LET current_time == start_time + (k - 1) * Minute
        IN  [start |-> current_time,
             value |-> Apply(condition_func,
                         SelectSeq(rows, LAMBDA r :
                             in_window(r, current_time, window_delta)))]]

\* compute_sliding_window_metrics(df, window_minutes, condition_func), with the
\* window start kept beside each value. On an empty frame min() and max() are
\* NaT and the loop condition is false.
sliding_window(rows, window_minutes, condition_func) ==
    IF rows = <<>> THEN <<>>
    ELSE sliding_loop(rows, window_minutes * Minute, ts_max(rows), ts_min(rows),
                      condition_func)

compute_sliding_window_metrics(rows, window_minutes, condition_func) ==
    Column(sliding_window(rows, window_minutes, condition_func), "value")

compute_sliding_window_avg(rows, window_minutes, avg_func) ==
    Column(sliding_window(rows, window_minutes, avg_func), "value")

----------------------------------------------------------------------------
(* BaselineClusterSplitter, EVTTailModel and HybridThresholdEngine *)

Ret(value, path, normal_values) ==
    [raised |-> FALSE, value |-> value, path |-> path, normal_values |-> normal_values]

Raise(path, normal_values) ==
    [raised |-> TRUE, value |-> NoValue, path |-> path, normal_values |-> normal_values]

NoResult == [raised |-> FALSE, value |-> NoValue, path |-> "none", normal_values |-> <<>>]

\* if len(metric_values) == 0: return 0
empty_sample(values) == Len(values) = 0

\* KMeans(n_clusters=2).fit(X) raises ValueError when n_samples < n_clusters
\* and when X contains NaN.
kmeans_fit_raises(metric_values) ==
    Len(metric_values) < NClusters \/ NotNaN(metric_values) # metric_values

RMaxOf(S) == CHOOSE m \in S : \A v \in S : RLe(v, m)

\* A fitted model: kmeans.labels_ and kmeans.cluster_centers_.flatten()
KMeansFit(labels, centers) == [labels |-> labels, centers |-> centers]

\* values[mask]: the values at the positions where the mask holds
boolean_mask(values, mask) ==
    LET kept == {i \in 1..Len(values) : mask[i]}
    IN  [j \in 1..Cardinality(kept) |->
            values[CHOOSE i \in kept : Cardinality({e \in kept : e <= i}) = j]]

\* KMeans(n_clusters=2, random_state=42).fit(X) on at least two numbers. In
\* one dimension the labels split the values at a cut between the two centres
\* and each centre is the mean of its cluster; which cut the seeded
\* initialisation converges to, and which cluster gets which label, is left
\* open. When all values coincide one cluster is empty and both centres sit
\* on the value.
kmeans_fits(metric_values) ==
    LET vs == SeqToSet(metric_values)
        n == Len(metric_values)
    IN  IF Cardinality(vs) = 1
        THEN {KMeansFit([i \in 1..n |-> k], <<metric_values[1], metric_values[1]>>) :
                k \in {0, 1}}
        ELSE UNION {
                LET low == mean(SelectSeq(metric_values, LAMBDA v : RLe(v, c)))
                    high == mean(SelectSeq(metric_values, LAMBDA v : RGt(v, c)))
                IN  {KMeansFit(
                        [i \in 1..n |-> IF RLe(metric_values[i], c) THEN k ELSE 1 - k],
                        IF k = 0 THEN <<low, high>> ELSE <<high, low>>) : k \in {0, 1}}
                : c \in vs \ {RMaxOf(vs)}}

\* Mutant: the cluster with the higher centre taken as normal.
np_argmax(centers) == IF RGe(centers[1], centers[2]) THEN 0 ELSE 1

\* np.argmin(centers): the index of the first minimum
np_argmin(centers) == IF RLe(centers[1], centers[2]) THEN 0 ELSE 1

\* normal_cluster_label = np.argmin(centers)
normal_cluster_label(fit) == np_argmin(fit.centers)

\* metric_values[labels == normal_cluster_label]
normal_values_of(metric_values, fit) ==
    boolean_mask(metric_values,
        [i \in 1..Len(metric_values) |-> fit.labels[i] = normal_cluster_label(fit)])

\* The possible normal_values of a sample the clustering accepts
kmeans_normal_values(metric_values) ==
    {normal_values_of(metric_values, fit) : fit \in kmeans_fits(metric_values)}

\* Mutant: values equal to the baseline counted as exceedances.
exceedances_at_or_above(normal_values, u) ==
    LET above == SelectSeq(normal_values, LAMBDA v : RGe(v, u))
    IN  [i \in 1..Len(above) |-> RSub(above[i], u)]

\* exceedances = normal_values[normal_values > u] - u
exceedances_above(normal_values, u) ==
    LET above == SelectSeq(normal_values, LAMBDA v : RGt(v, u))
    IN  [i \in 1..Len(above) |-> RSub(above[i], u)]

\* if len(exceedances) < 10
insufficient_tail(exceedances) == Len(exceedances) < MinExceedances

\* genpareto.ppf(q, *genpareto.fit(exceedances)): the fitted tail quantile is
\* the result of a numerical optimisation; the model leaves its value open
\* among a few representatives.
genpareto_quantiles(exceedances) == {RInt(0), Rat(1, 2), RInt(2)}

\* return int(val) if as_int else round(val, 2)
convert(val, as_int) == IF as_int THEN {py_int(val)} ELSE py_round2(val)

\* genpareto.fit(exceedances): a fit that returns is represented by the tail
\* quantiles genpareto.ppf gives for it at the two tiers' quantiles; ppf is
\* the inverse of a distribution function and does not decrease in q. A fit
\* that raises has no quantiles.
GenParetoFit(raised, ppf) == [raised |-> raised, ppf |-> ppf]

genpareto_fit(exceedances) ==
    {GenParetoFit(TRUE, [q \in {990, 995} |-> NaN])} \cup
    {GenParetoFit(FALSE, ppf) :
        ppf \in {f \in [{990, 995} -> genpareto_quantiles(exceedances)] :
                    RLe(f[990], f[995])}}

\* genpareto.ppf(ev_target_quantile, shape, loc=loc, scale=scale)
genpareto_ppf(qpm, tail) == tail.ppf[qpm]

\* compute_hybrid_threshold after the clustering, for one clustering outcome
\* and one outcome of the tail fit (which only the last path runs).
hybrid_after_fits(metric_values, normal_values, tail, qpm, as_int) ==
    IF Len(normal_values) = 0
    THEN {Ret(v, "whole", normal_values) :
            v \in convert(np_percentile(metric_values, qpm), as_int)}
    ELSE LET u == np_percentile(normal_values, BaselinePercentile)
             exceedances == exceedances_above(normal_values, u)
         IN  IF insufficient_tail(exceedances)
             THEN {Ret(v, "normal", normal_values) :
                     v \in convert(np_percentile(normal_values, qpm), as_int)}
             ELSE IF tail.raised THEN {Raise("fit_error", normal_values)}
             ELSE {Ret(v, "evt", normal_values) :
                     v \in convert(RAdd(u, genpareto_ppf(qpm, tail)), as_int)}

\* The exceedances the tail fit of a normal regime is given
tail_of(normal_values) ==
    IF Len(normal_values) = 0 THEN <<>>
    ELSE exceedances_above(normal_values,
                           np_percentile(normal_values, BaselinePercentile))

\* compute_hybrid_threshold after the clustering, for one clustering outcome.
hybrid_after_clustering(metric_values, normal_values, qpm, as_int) ==
    UNION {hybrid_after_fits(metric_values, normal_values, tail, qpm, as_int) :
            tail \in genpareto_fit(tail_of(normal_values))}

\* Mutant: the guard for an empty sample left out.
hybrid_from_samples_unguarded(metric_values, qpm, as_int) ==
    IF kmeans_fit_raises(metric_values) THEN {Raise("kmeans_error", <<>>)}
    ELSE UNION {hybrid_after_clustering(metric_values, nv, qpm, as_int) :
                    nv \in kmeans_normal_values(metric_values)}

\* The outcomes of the count entry point once the samples are known.
hybrid_from_samples(metric_values, qpm, as_int) ==
    IF empty_sample(metric_values) THEN {Ret(RInt(0), "empty", <<>>)}
    ELSE IF kmeans_fit_raises(metric_values) THEN {Raise("kmeans_error", <<>>)}
    ELSE UNION {hybrid_after_clustering(metric_values, nv, qpm, as_int) :
                    nv \in kmeans_normal_values(metric_values)}

\* compute_hybrid_threshold(df, window_minutes, condition_func, q, as_int):
\* the set of outcomes (a returned threshold, or an exception).
compute_hybrid_threshold(rows, window_minutes, condition_func, qpm, as_int) ==
    hybrid_from_samples(
        compute_sliding_window_metrics(rows, window_minutes, condition_func), qpm, as_int)

\* The outcomes of the average entry point once the samples are known.
hybrid_avg_from_samples(avg_values, qpm) ==
    IF empty_sample(avg_values) THEN {Ret(RInt(0), "empty", <<>>)}
    ELSE {Ret(v, "percentile", <<>>) : v \in py_round2(np_percentile(avg_values, qpm))}

\* compute_hybrid_avg_threshold(df, window_minutes, avg_func, q)
compute_hybrid_avg_threshold(rows, window_minutes, avg_func, qpm) ==
    hybrid_avg_from_samples(compute_sliding_window_avg(rows, window_minutes, avg_func), qpm)

----------------------------------------------------------------------------
(* Event batches *)

Row(ts, status, cpu) ==
    [timestamp_dt |-> ts, http_status |-> status, cpu_usage_percent |-> cpu]

Statuses == {200, 404, 500}

StatusRows == {Row(t, s, RInt(50)) : t \in 0..MaxTime, s \in Statuses}
CpuRows == {Row(t, 200, RInt(c)) : t \in 0..MaxTime, c \in {10, 90}}
CoarseRows == {Row(m * Minute, s, RInt(50)) : m \in 0..CoarseSpan, s \in {200, 500}}

RowKey(r) == (r.timestamp_dt * 1000 + r.http_status) * 100 + r.cpu_usage_percent[1]

\* No operation of the engine reads the order of the rows (they are filtered,
\* counted and averaged), so one ordering stands for each multiset of rows.
Canonical(S, n) ==
    {b \in [1..n -> S] : \A i \in 1..(n - 1) : RowKey(b[i]) <= RowKey(b[i + 1])}

\* A long batch that drives the count threshold into the tail fit: over 112
\* one-minute windows the 500-count is 1 in ten windows, 2 in one and 0 in the
\* rest; its last row only extends the observed span.
LongBatch ==
    [i \in 1..10 |-> Row((i - 1) * 10 * Minute, 500, RInt(50))]
    \o <<Row(100 * Minute, 500, RInt(50)), Row(100 * Minute, 500, RInt(50)),
         Row(112 * Minute, 200, RInt(50))>>

\* A long batch whose baseline falls between two counts: over 103 one-minute
\* windows the 500-count is 1 in eleven windows, 2 in one and 0 in the rest,
\* so that the 90th percentile of the 102 values up to 1 is 0.9.
TailBatch ==
    [i \in 1..11 |-> Row((i - 1) * 9 * Minute, 500, RInt(50))]
    \o <<Row(100 * Minute, 500, RInt(50)), Row(100 * Minute, 500, RInt(50)),
         Row(103 * Minute, 200, RInt(50))>>

EventBatches ==
    UNION {Canonical(StatusRows, n) : n \in 0..MaxEvents}
    \cup UNION {Canonical(CpuRows, n) : n \in 1..MaxEvents}
    \cup UNION {Canonical(CoarseRows, n) : n \in 1..MaxEvents}
    \cup {LongBatch, TailBatch}

Quantiles == {990, 995}     \* ev_target_quantile 0.99 (Warning), 0.995 (Critical)

----------------------------------------------------------------------------
(* Specification of the sampler and the two threshold entry points: a batch *)
(* is loaded and one of the operations is invoked on it.                    *)

Args(window_minutes, condition_func, qpm, as_int) ==
    [window_minutes |-> window_minutes, condition_func |-> condition_func,
     qpm |-> qpm, as_int |-> as_int]

NoArgs == Args(0, "none", 0, FALSE)

NoVerdict ==
    [current_time |-> 0, members |-> <<>>, window_df |-> <<>>,
     triggered |-> FALSE, metrics |-> <<>>]

NoDetection == [detector |-> "none", raised |-> FALSE, thresholds |-> <<>>, anomalies |-> <<>>]

NoCycle == [returned |-> FALSE, raised_in |-> "none", pushed |-> <<>>]

NoHistory == [seed |-> 0, calls |-> <<>>]

NoSession == [df |-> <<>>, rules |-> <<>>, combined_rule |-> <<>>]

NoReport ==
    [crashed |-> FALSE, run |-> 0, requested |-> FALSE, selected |-> <<>>,
     results |-> <<>>, message |-> "none", created |-> <<>>, combined |-> <<>>]

\* The variables of the parts of the program a specification leaves aside
JourneysIdle == journey_group = <<>> /\ forecast = <<>>
DetectorsIdle ==
    /\ grouped = <<>> /\ detected = NoDetection /\ cycle = NoCycle
    /\ time_interval = BinMinutes /\ JourneysIdle
AppIdle == session = NoSession /\ report = NoReport
PollIdle == loop = "none" /\ last_fetch_time = 0 /\ utcnow = 0 /\ queries = <<>>

InitThreshold ==
    /\ df \in EventBatches
    /\ op = "loaded"
    /\ history = NoHistory
    /\ args = NoArgs
    /\ sampled = <<>>
    /\ windows = <<>>
    /\ result = NoResult
    /\ PollIdle
    /\ rules = <<>>
    /\ verdict = NoVerdict
    /\ DetectorsIdle
    /\ AppIdle

\* compute_sliding_window_metrics(df, window_minutes, condition_func)
Sample(window_minutes, condition_func) ==
    /\ op = "loaded"
    /\ op' = "sample"
    /\ args' = Args(window_minutes, condition_func, 0, FALSE)
    /\ sampled' = compute_sliding_window_metrics(df, window_minutes, condition_func)
    /\ windows' = Column(sliding_window(df, window_minutes, condition_func), "start")
    /\ result' = NoResult
    /\ UNCHANGED <<history, poll_vars, df, rule_vars, detect_vars, app_vars>>

\* compute_hybrid_threshold(df, window_minutes, condition_func, q, as_int)
CountThreshold(window_minutes, condition_func, qpm, as_int) ==
    /\ op = "loaded"
    /\ op' = "count_threshold"
    /\ args' = Args(window_minutes, condition_func, qpm, as_int)
    /\ sampled' = compute_sliding_window_metrics(df, window_minutes, condition_func)
    /\ windows' = Column(sliding_window(df, window_minutes, condition_func), "start")
    /\ result' \in compute_hybrid_threshold(df, window_minutes, condition_func, qpm, as_int)
    /\ UNCHANGED <<history, poll_vars, df, rule_vars, detect_vars, app_vars>>

\* compute_hybrid_avg_threshold(df, window_minutes, avg_func, q)
AvgThreshold(window_minutes, avg_func, qpm) ==
    /\ op = "loaded"
    /\ op' = "avg_threshold"
    /\ args' = Args(window_minutes, avg_func, qpm, FALSE)
    /\ sampled' = compute_sliding_window_avg(df, window_minutes, avg_func)
    /\ windows' = Column(sliding_window(df, window_minutes, avg_func), "start")
    /\ result' \in compute_hybrid_avg_threshold(df, window_minutes, avg_func, qpm)
    /\ UNCHANGED <<history, poll_vars, df, rule_vars, detect_vars, app_vars>>

NextThreshold ==
    \/ \E w \in 1..MaxWindow, c \in CountConditions \cup AvgConditions : Sample(w, c)
    \/ \E w \in 1..MaxWindow, c \in CountConditions, q \in Quantiles, i \in BOOLEAN :
            CountThreshold(w, c, q, i)
    \/ \E w \in 1..MaxWindow, q \in Quantiles : AvgThreshold(w, "avg_cpu_usage", q)

SpecThreshold == InitThreshold /\ [][NextThreshold]_vars

----------------------------------------------------------------------------
(* Rule / CombinedRule engine *)

\* Rule.__init__
Rule(rule_id, window_minutes, condition_func, threshold, level) ==
    [rule_id |-> rule_id, window_minutes |-> window_minutes,
     condition_func |-> condition_func, threshold |-> threshold, level |-> level]

\* window_df of Rule.evaluate:
\* df[(df["timestamp_dt"] >= window_start) & (df["timestamp_dt"] <= current_time)]
rule_window_df(rule, rows, current_time) ==
    LET window_start == current_time - rule.window_minutes * Minute
    IN  SelectSeq(rows, LAMBDA r :
            r.timestamp_dt >= window_start /\ r.timestamp_dt <= current_time)

\* metric >= self.threshold
reaches(metric, threshold) == RGe(metric, threshold)

\* Rule.evaluate(df, current_time) -> (triggered, metric)
Rule_evaluate(rule, rows, current_time) ==
    LET metric == Apply(rule.condition_func, rule_window_df(rule, rows, current_time))
    IN  <<reaches(metric, rule.threshold), metric>>

\* Mutant: any() in place of all().
RECURSIVE py_any(_)
py_any(s) == IF s = <<>> THEN FALSE ELSE Head(s) \/ py_any(Tail(s))

\* all(results)
RECURSIVE py_all(_)
py_all(s) == IF s = <<>> THEN TRUE ELSE Head(s) /\ py_all(Tail(s))

\* CombinedRule.evaluate(df, current_time) -> (all(results), metrics)
CombinedRule_evaluate(member_rules, rows, current_time) ==
    LET results == [i \in 1..Len(member_rules) |->
                        Rule_evaluate(member_rules[i], rows, current_time)[1]]
        metrics == [i \in 1..Len(member_rules) |->
                        Rule_evaluate(member_rules[i], rows, current_time)[2]]
    IN  <<py_all(results), metrics>>

----------------------------------------------------------------------------
(* Specification of rule evaluation: rules with given thresholds are        *)
(* evaluated, alone or combined, on a batch at any current time.            *)

\* window, condition and level of the defined rules; windows are in minutes
RuleShapes ==
    <<[window_minutes |-> 1, condition_func |-> "count_500", level |-> "Warning"],
      [window_minutes |-> 2, condition_func |-> "count_404", level |-> "Warning"],
      [window_minutes |-> 1, condition_func |-> "count_4xx_5xx", level |-> "Critical"]>>

RuleIds == 1..Len(RuleShapes)

RuleBatches == UNION {Canonical(StatusRows, n) : n \in 0..MaxRuleEvents}

\* The member lists tried: every list of at most two distinct rules, in either
\* order, and the list of all rules
MemberLists ==
    UNION {{m \in [1..n -> RuleIds] : \A i, j \in 1..n : i # j => m[i] # m[j]} :
            n \in 0..2}
    \cup {[i \in RuleIds |-> i]}

EvalTimes == 0..MaxTime

\* The thresholds given to the enumerated rules (one value for all rules of a
\* state; the observed values differ from rule to rule)
Thresholds == 0..2

InitRules ==
    /\ df \in RuleBatches
    /\ \E th \in Thresholds :
        rules = [i \in RuleIds |->
                    Rule(i, RuleShapes[i].window_minutes, RuleShapes[i].condition_func,
                         RInt(th), RuleShapes[i].level)]
    /\ op = "loaded"
    /\ history = NoHistory
    /\ args = NoArgs
    /\ sampled = <<>>
    /\ windows = <<>>
    /\ result = NoResult
    /\ PollIdle
    /\ verdict = NoVerdict
    /\ DetectorsIdle
    /\ AppIdle

\* rule.evaluate(df, current_time)
EvaluateRule(i, current_time) ==
    /\ op = "loaded"
    /\ op' = "rule_evaluate"
    /\ verdict' = [current_time |-> current_time,
                   members |-> <<i>>,
                   window_df |-> rule_window_df(rules[i], df, current_time),
                   triggered |-> Rule_evaluate(rules[i], df, current_time)[1],
                   metrics |-> <<Rule_evaluate(rules[i], df, current_time)[2]>>]
    /\ UNCHANGED <<history, poll_vars, df, threshold_vars, rules, detect_vars, app_vars>>

\* CombinedRule(description, [rules[i] for i in members]).evaluate(df, current_time)
EvaluateCombined(members, current_time) ==
    LET member_rules == [k \in 1..Len(members) |-> rules[members[k]]]
    IN  /\ op = "loaded"
        /\ op' = "combined_evaluate"
        /\ verdict' = [current_time |-> current_time,
                       members |-> members,
                       window_df |-> <<>>,
                       triggered |-> CombinedRule_evaluate(member_rules, df, current_time)[1],
                       metrics |-> CombinedRule_evaluate(member_rules, df, current_time)[2]]
        /\ UNCHANGED <<history, poll_vars, df, threshold_vars, rules, detect_vars, app_vars>>

NextRules ==
    \/ \E i \in RuleIds, t \in EvalTimes : EvaluateRule(i, t)
    \/ \E m \in MemberLists, t \in EvalTimes : EvaluateCombined(m, t)

SpecRules == InitRules /\ [][NextRules]_vars

----------------------------------------------------------------------------
(* Detectors over the aggregated frame, and the pipeline cycle *)

SpikeWindow == 15           \* compute_hybrid_avg_threshold(group, 15, ...
SpikeQuantile == 990        \* ... avg_response_time, 0.99), per mille
ErrorRateWindow == 120      \* compute_hybrid_threshold(group, 120, ...
ErrorRateQuantile == 990    \* ev_target_quantile=0.99, per mille
MinIntervals == 6           \* min_intervals=6
PatternQuantile == 990      \* ev_target_quantile=0.99, per mille
SecondsPerInterval == 900   \* slope * 900
DemoMinRows == 2            \* if len(group) < 2: continue
RiskQuantile == 990         \* np.percentile(journey_group['risk_score'], 99), per mille
MinForecastBins == 6        \* if len(grouped_journeys) < 6: return None

\* A row of preprocess_data(df, time_interval): one (environment, endpoint,
\* time_bin) with its aggregates; time_bin is the timestamp floored to the
\* interval and timestamp_dt is set to time_bin.
IntervalRow(environment, endpoint, bin, interval, response_time, error_rate) ==
    [environment |-> environment, endpoint |-> endpoint,
     time_bin |-> bin * interval * Minute,
     timestamp_dt |-> bin * interval * Minute,
     avg_response_time |-> response_time, error_rate |-> error_rate]

\* A row of preprocess_data(df, time_interval='15min')
GroupRow(environment, endpoint, bin, response_time, error_rate) ==
    IntervalRow(environment, endpoint, bin, BinMinutes, response_time, error_rate)

GroupKey(r) == <<r.environment, r.endpoint>>

\* The keys grouped.groupby(['environment', 'endpoint']) iterates over, in
\* iteration order. The frame is sorted by key, so this is the order of first
\* appearance.
group_keys(frame) ==
    LET firsts == {i \in 1..Len(frame) :
                        \A j \in 1..(i - 1) : GroupKey(frame[j]) # GroupKey(frame[i])}
    IN  [n \in 1..Cardinality(firsts) |->
            GroupKey(frame[CHOOSE i \in firsts : Cardinality({j \in firsts : j <= i}) = n])]

\* The group of one key
group_of(frame, key) == SelectSeq(frame, LAMBDA r : GroupKey(r) = key)

\* pd.concat of a list of frames
RECURSIVE pd_concat(_)
pd_concat(frames) ==
    IF frames = <<>> THEN <<>> ELSE Head(frames) \o pd_concat(Tail(frames))

\* The ways of picking one outcome for every group, in group order
RECURSIVE Choices(_)
Choices(outcome_sets) ==
    IF outcome_sets = <<>> THEN {<<>>}
    ELSE {<<h>> \o t : h \in Head(outcome_sets), t \in Choices(Tail(outcome_sets))}

\* group[column] > dynamic_threshold
exceeds(value, dynamic_threshold) == RGt(value, dynamic_threshold)

\* anomalies = group[anomaly_mask].copy() with anomaly_type and
\* dynamic_threshold set
flag_group(group, column, dynamic_threshold, anomaly_type) ==
    LET anomalies == SelectSeq(group, LAMBDA r : exceeds(r[column], dynamic_threshold))
    IN  [i \in 1..Len(anomalies) |->
            [row |-> anomalies[i], anomaly_type |-> anomaly_type,
             dynamic_threshold |-> dynamic_threshold]]

Detection(detector, raised, thresholds, anomalies) ==
    [detector |-> detector, raised |-> raised, thresholds |-> thresholds,
     anomalies |-> anomalies]

\* The for loop over the groups of a detector, for one outcome of every
\* group's threshold computation. An exception of the threshold computation
\* is not caught: it leaves the loop and the detector at the first group whose
\* computation raises.
detector_loop(frame, outcomes, detector, column, anomaly_type) ==
    LET keys == group_keys(frame)
        failing == {i \in 1..Len(keys) : outcomes[i].raised}
        entry(i) == [key |-> keys[i], outcome |-> outcomes[i]]
    IN  IF failing # {}
        THEN LET f == CHOOSE i \in failing : \A j \in failing : i <= j
             IN  Detection(detector, TRUE, [i \in 1..f |-> entry(i)], <<>>)
        ELSE Detection(detector, FALSE, [i \in 1..Len(keys) |-> entry(i)],
                pd_concat([i \in 1..Len(keys) |->
                    flag_group(group_of(frame, keys[i]), column,
                               outcomes[i].value, anomaly_type)]))

\* detect_response_time_spike_anomalies(grouped): the set of its outcomes
detect_response_time_spike_anomalies(frame) ==
    LET keys == group_keys(frame)
        outcome_sets == [i \in 1..Len(keys) |->
            compute_hybrid_avg_threshold(group_of(frame, keys[i]), SpikeWindow,
                                         "avg_response_time", SpikeQuantile)]
    IN  {detector_loop(frame, o, "spike", "avg_response_time", "Spike") :
            o \in Choices(outcome_sets)}

\* detect_error_rate_anomalies(grouped): the set of its outcomes
detect_error_rate_anomalies(frame) ==
    LET keys == group_keys(frame)
        outcome_sets == [i \in 1..Len(keys) |->
            compute_hybrid_threshold(group_of(frame, keys[i]), ErrorRateWindow,
                                     "error_rate", ErrorRateQuantile, FALSE)]
    IN  {detector_loop(frame, o, "error_rate", "error_rate", "Error Rate") :
            o \in Choices(outcome_sets)}

\* The square of the two-sided 5% critical value of Student's t, in
\* thousandths, for 1 to 22 degrees of freedom: p_value < 0.05 exactly when
\* t * t exceeds it.
t_critical_squared ==
    <<161448, 18513, 10128, 7708, 6608, 5987, 5591, 5318, 5117,
      4964, 4844, 4747, 4667, 4600, 4543, 4494, 4451, 4414, 4381, 4351, 4325,
      4301>>

RECURSIVE ISum(_)
ISum(s) == IF s = <<>> THEN 0 ELSE Head(s) + ISum(Tail(s))

\* The sums linregress(x, y) works from, n times the centred cross products,
\* for x = time_bin in ticks and whole-numbered y
regression_sums(ticks, y) ==
    LET n == Len(ticks)
        sx == ISum(ticks)
        sy == ISum(y)
    IN  [n |-> n,
         sxy |-> n * ISum([k \in 1..n |-> ticks[k] * y[k]]) - sx * sy,
         sxx |-> n * ISum([k \in 1..n |-> ticks[k] * ticks[k]]) - sx * sx,
         syy |-> n * ISum([k \in 1..n |-> y[k] * y[k]]) - sy * sy]

\* a * b with the common factors cancelled before multiplying
RMulReduced(a, b) ==
    LET g1 == GCD(Abs(a[1]), b[2])
        g2 == GCD(Abs(b[1]), a[2])
    IN  IF a[1] = 0 \/ b[1] = 0 THEN RInt(0)
        ELSE Rat((a[1] \div g1) * (b[1] \div g2), (a[2] \div g2) * (b[2] \div g1))

\* slope of linregress(x, y), in y units per second
linregress_slope(ticks, y) ==
    LET s == regression_sums(ticks, y)
    IN  RMul(Rat(s.sxy, s.sxx), Rat(Minute, 60))

\* p_value < 0.05 of linregress(x, y). With two points the p-value is set to
\* 0 or 1 by whether the two y differ; a constant y gives r = 0 and p = 1; an
\* exact fit gives p = 0; otherwise t * t = r * r * df / (1 - r * r) is
\* compared with the critical value.
linregress_significant(ticks, y) ==
    LET s == regression_sums(ticks, y)
        r2 == IF s.syy = 0 THEN RInt(0)
              ELSE RMulReduced(Rat(s.sxy, s.sxx), Rat(s.sxy, s.syy))
        critical == Rat(t_critical_squared[s.n - 2], 1000)
    IN  IF s.n = 2 THEN y[1] # y[2]
        ELSE IF r2 = RInt(1) THEN TRUE
        ELSE RGt(RMulReduced(r2, RAdd(RInt(s.n - 2), critical)), critical)

\* The response times of a group as whole numbers
response_times(group) == [k \in 1..Len(group) |-> group[k].avg_response_time[1]]

\* slope and p_value < 0.05 of the regression of avg_response_time on
\* time_bin for the rows of a group sorted by time_bin
group_slope(group) == linregress_slope(Column(group, "time_bin"), response_times(group))
group_significant(group) ==
    linregress_significant(Column(group, "time_bin"), response_times(group))

\* slope * 900: the slope per second turned into a slope per interval
per_interval(slope) == RMul(slope, RInt(SecondsPerInterval))

\* Mutant: a slope equal to the threshold counted as above it.
float_ge(a, b, same_computation) == {RGe(a, b)}

\* a > b on floating-point values: when the exact values coincide and a and b
\* were not computed by the same operations, rounding decides.
float_gt(a, b, same_computation) ==
    IF RGt(a, b) THEN {TRUE}
    ELSE IF a = b /\ ~same_computation THEN {TRUE, FALSE}
    ELSE {FALSE}

\* Mutant: the record of the group's first row instead of its last
pattern_record_oldest(group, anomaly_type, threshold) ==
    [row |-> group[1], anomaly_type |-> anomaly_type,
     dynamic_threshold |-> threshold,
     slope_per_interval |-> per_interval(group_slope(group))]

\* anomaly = group.iloc[-1].copy() with its annotations
pattern_record(group, anomaly_type, threshold) ==
    [row |-> group[Len(group)], anomaly_type |-> anomaly_type,
     dynamic_threshold |-> threshold,
     slope_per_interval |-> per_interval(group_slope(group))]

\* The slopes of the sliding sub-windows of window_size rows, per interval
window_slopes(group, window_size) ==
    [i \in 1..(Len(group) - window_size + 1) |->
        per_interval(group_slope(SubSeq(group, i, i + window_size - 1)))]

\* What one pass of a pattern detector's loop body does for a group: the
\* threshold its slope was compared with, if it got that far, and the records
\* appended
Skipped == [thresholds |-> <<>>, anomalies |-> <<>>]
Compared(group, path, threshold, flagged, anomaly_type) ==
    [thresholds |-> <<[key |-> GroupKey(group[1]),
                       outcome |-> Ret(threshold, path, <<>>)]>>,
     anomalies |-> IF flagged THEN <<pattern_record(group, anomaly_type, threshold)>>
                   ELSE <<>>]

\* One group of detect_response_time_pattern_change: what the loop body may
\* do. With exactly min_intervals rows the only sub-window is the group
\* itself and its slope is computed by the same operations.
pattern_change_of_group(group, min_intervals, qpm) ==
    IF Len(group) < min_intervals THEN {Skipped}
    ELSE LET slopes == window_slopes(group, min_intervals)
             dynamic_slope_threshold == np_percentile(slopes, qpm)
         IN  {Compared(group, "percentile", dynamic_slope_threshold,
                       above /\ group_significant(group), "Pattern Change")
              : above \in float_gt(per_interval(group_slope(group)),
                                   dynamic_slope_threshold, Len(slopes) = 1)}

\* One group of detect_response_time_pattern_change_demo (kuch.py)
pattern_change_demo_of_group(group, slope_threshold) ==
    IF Len(group) < DemoMinRows THEN {Skipped}
    ELSE {Compared(group, "fixed", slope_threshold, above,
                   "Pattern Change (Demo Threshold)")
          : above \in float_gt(per_interval(group_slope(group)), slope_threshold, FALSE)}

\* One group of detect_response_time_pattern_change of finalML/model.py
pattern_change_fixed_of_group(group, min_intervals, slope_threshold_per_interval) ==
    IF Len(group) < min_intervals THEN {Skipped}
    ELSE {Compared(group, "fixed", slope_threshold_per_interval,
                   above /\ group_significant(group), "Pattern Change")
          : above \in float_gt(per_interval(group_slope(group)),
                               slope_threshold_per_interval, FALSE)}

\* The for loop over the groups of a pattern detector, for one outcome of
\* every group's pass
pattern_loop(detector, passes) ==
    Detection(detector, FALSE,
              pd_concat([i \in 1..Len(passes) |-> passes[i].thresholds]),
              pd_concat([i \in 1..Len(passes) |-> passes[i].anomalies]))

\* detect_response_time_pattern_change(grouped, min_intervals, q): the set of
\* its outcomes
detect_response_time_pattern_change(frame) ==
    LET keys == group_keys(frame)
        outcome_sets == [i \in 1..Len(keys) |->
            pattern_change_of_group(group_of(frame, keys[i]), MinIntervals,
                                    PatternQuantile)]
    IN  {pattern_loop("pattern", o) : o \in Choices(outcome_sets)}

\* detect_response_time_pattern_change_demo(grouped, slope_threshold)
detect_response_time_pattern_change_demo(frame, slope_threshold) ==
    LET keys == group_keys(frame)
        outcome_sets == [i \in 1..Len(keys) |->
            pattern_change_demo_of_group(group_of(frame, keys[i]), slope_threshold)]
    IN  {pattern_loop("pattern_demo", o) : o \in Choices(outcome_sets)}

\* detect_response_time_pattern_change(grouped, min_intervals,
\* slope_threshold_per_interval) of finalML/model.py
detect_response_time_pattern_change_fixed(frame, min_intervals, slope_threshold) ==
    LET keys == group_keys(frame)
        outcome_sets == [i \in 1..Len(keys) |->
            pattern_change_fixed_of_group(group_of(frame, keys[i]), min_intervals,
                                          slope_threshold)]
    IN  {pattern_loop("pattern_fixed", o) : o \in Choices(outcome_sets)}

\* The documents push_anomalies_to_elasticsearch indexes for one frame of
\* anomalies: one per row, into "anomaly-<anomaly_type>"
push_docs(anomalies, anomaly_type) ==
    [i \in 1..Len(anomalies) |-> [index |-> anomaly_type, doc |-> anomalies[i]]]

Cycle(returned, raised_in, pushed) ==
    [returned |-> returned, raised_in |-> raised_in, pushed |-> pushed]

\* The three pushes at the end of run_pipeline: the documents are indexed one
\* by one, and a failing es.index call raises out of the cycle.
push_all(docs) ==
    {Cycle(TRUE, "none", docs)}
        \cup {Cycle(FALSE, "push", SubSeq(docs, 1, n)) : n \in 0..(Len(docs) - 1)}

\* run_pipeline() once the logs are fetched and aggregated into frame: the set
\* of its outcomes. No exception is caught inside the cycle.
run_pipeline(frame) ==
    IF frame = <<>> THEN {Cycle(TRUE, "none", <<>>)}
    ELSE UNION {
            IF rt_spike.raised THEN {Cycle(FALSE, "spike", <<>>)}
            ELSE UNION {
                UNION {
                    IF err_rate.raised THEN {Cycle(FALSE, "error_rate", <<>>)}
                    ELSE push_all(push_docs(rt_spike.anomalies, "response-spike")
                                  \o push_docs(rt_pattern.anomalies, "pattern-change")
                                  \o push_docs(err_rate.anomalies, "error-rate"))
                    : err_rate \in detect_error_rate_anomalies(frame)}
                : rt_pattern \in detect_response_time_pattern_change(frame)}
            : rt_spike \in detect_response_time_spike_anomalies(frame)}

----------------------------------------------------------------------------
(* Aggregation and journey analysis: the steps of main() that are handed    *)
(* the caller's log table                                                    *)

RequestIds == <<"r1", "r2">>

\* The environments of the records, in sorting order
Environments == <<"cloud", "prod">>

\* The request_id of a record whose field is empty in the file
NoRequestId == "NaN"

\* A record of the log table load_data returns
LogRow(ts, endpoint, response_time_ms, error_flag, request_id) ==
    [timestamp |-> ts, timestamp_dt |-> ts, environment |-> "prod",
     endpoint |-> endpoint, response_time_ms |-> RInt(response_time_ms),
     error_flag |-> error_flag, request_id |-> request_id]

\* Series.dt.floor(time_interval)
dt_floor(ts, interval) == (ts \div (interval * Minute)) * (interval * Minute)

\* frame[name] = values: the frame itself gets the column
assign_column(frame, name, values) ==
    [i \in 1..Len(frame) |->
        [f \in DOMAIN frame[i] \cup {name} |->
            IF f = name THEN values[i] ELSE frame[i][f]]]

\* The position of a value in a list of distinct values
IndexOf(list, v) == CHOOSE i \in 1..Len(list) : list[i] = v

\* The members of a set as a list in the order of their ranks
SortedList(S, rank) ==
    [n \in 1..Cardinality(S) |-> CHOOSE x \in S : rank[x] = n - 1]

\* preprocess_data(df, time_interval): the frame it was given, after the call,
\* and the aggregated frame it returns, sorted by (environment, endpoint,
\* time_bin)
preprocess_data(frame, interval) ==
    LET binned == assign_column(frame, "time_bin",
                    [i \in 1..Len(frame) |-> dt_floor(frame[i].timestamp, interval)])
        key(r) == <<r.environment, r.endpoint, r.time_bin>>
        keys == {key(binned[i]) : i \in 1..Len(binned)}
        before(k1, k2) ==
            \/ IndexOf(Environments, k1[1]) < IndexOf(Environments, k2[1])
            \/ /\ k1[1] = k2[1]
               /\ \/ IndexOf(Endpoints, k1[2]) < IndexOf(Endpoints, k2[2])
                  \/ k1[2] = k2[2] /\ k1[3] < k2[3]
        agg(k) ==
            LET rows == SelectSeq(binned, LAMBDA r : key(r) = k)
                error_count == ISum(Column(rows, "error_flag"))
                request_count == Len(SelectSeq(rows, LAMBDA r : r.request_id # NoRequestId))
            IN  [environment |-> k[1], endpoint |-> k[2], time_bin |-> k[3],
                 request_count |-> request_count, error_count |-> error_count,
                 avg_response_time |-> mean(Column(rows, "response_time_ms")),
                 error_rate |-> py_divide(error_count, request_count),
                 timestamp_dt |-> k[3]]
        sorted == SortedList(keys,
                    [k \in keys |-> Cardinality({j \in keys : before(j, k)})])
    IN  [df |-> binned, grouped |-> [n \in 1..Len(sorted) |-> agg(sorted[n])]]

\* Mutant: every environment of the journey counted, the first one included.
risk_score_per_environment(total_response_time_ms, total_requests, total_errors, distinct_environments) ==
    RAdd(RDivInt(total_response_time_ms, total_requests),
         RInt(100 * total_errors + 50 * distinct_environments))

\* journey_group['risk_score'] = total_response_time_ms / total_requests
\*     + 100 * total_errors + 50 * (distinct_environments - 1)
risk_score(total_response_time_ms, total_requests, total_errors, distinct_environments) ==
    RAdd(RDivInt(total_response_time_ms, total_requests),
         RInt(100 * total_errors + 50 * (distinct_environments - 1)))

\* analyze_request_journeys(df): one row per request_id with its risk score
\* and the batch's 99th-percentile risk threshold
analyze_request_journeys(frame) ==
    LET ids == {frame[i].request_id : i \in 1..Len(frame)} \ {NoRequestId}
        before(a, b) == IndexOf(RequestIds, a) < IndexOf(RequestIds, b)
        sorted == SortedList(ids,
                    [a \in ids |-> Cardinality({b \in ids : before(b, a)})])
        journey(id) ==
            LET rows == SelectSeq(frame, LAMBDA r : r.request_id = id)
                total_errors == ISum(Column(rows, "error_flag"))
                distinct_environments == Cardinality(SeqToSet(Column(rows, "environment")))
            IN  [request_id |-> id,
                 journey_start |-> CHOOSE t \in SeqToSet(Column(rows, "timestamp")) :
                                    \A u \in SeqToSet(Column(rows, "timestamp")) : t <= u,
                 total_response_time_ms |-> RSum(Column(rows, "response_time_ms")),
                 total_requests |-> Len(rows),
                 total_errors |-> total_errors,
                 distinct_environments |-> distinct_environments,
                 risk_score |->
                    risk_score(RSum(Column(rows, "response_time_ms")), Len(rows),
                               total_errors, distinct_environments)]
        scored == [n \in 1..Len(sorted) |-> journey(sorted[n])]
        risk_threshold == np_percentile(Column(scored, "risk_score"), RiskQuantile)
    IN  IF scored = <<>> THEN <<>>
        ELSE assign_column(
            assign_column(scored, "is_anomalous",
                [n \in 1..Len(scored) |-> RGt(scored[n].risk_score, risk_threshold)]),
            "dynamic_risk_threshold", [n \in 1..Len(scored) |-> risk_threshold])

\* forecast_journey_anomalies(journey_group, time_interval): the frame it was
\* given, after the call, and what it returns: None for fewer than six bins
\* or a failing forecast, else Prophet's forecast.
forecast_journey_anomalies(journeys, interval) ==
    LET binned == assign_column(journeys, "journey_time_bin",
                    [i \in 1..Len(journeys) |-> dt_floor(journeys[i].journey_start, interval)])
        bins == SeqToSet(Column(binned, "journey_time_bin"))
    IN  {[journey_group |-> binned, forecast |-> f] :
            f \in IF Cardinality(bins) < MinForecastBins THEN {None}
                  ELSE {None, "yhat"}}

----------------------------------------------------------------------------
(* Specification of the detectors: an aggregated frame of two streams is    *)
(* given to a detector, or to a whole pipeline cycle.                       *)

\* The time bins a stream may have a row for: the first two and the last two
\* of MaxBin + 1 consecutive bins
BinSlots == {0, 1, MaxBin - 1, MaxBin}

\* The aggregates of a bin: a calm one and a slow, failing one
BinKinds ==
    {[avg_response_time |-> RInt(100), error_rate |-> RInt(0)],
     [avg_response_time |-> RInt(200), error_rate |-> Rat(1, 2)]}

Absent == [avg_response_time |-> NoValue, error_rate |-> NoValue]

\* The rows of one stream, sorted by time_bin
StreamFrames(endpoint) ==
    {LET bins == {b \in BinSlots : a[b] # Absent}
         nth(n) == CHOOSE b \in bins : Cardinality({c \in bins : c <= b}) = n
     IN  [n \in 1..Cardinality(bins) |->
            GroupRow("prod", endpoint, nth(n),
                     a[nth(n)].avg_response_time, a[nth(n)].error_rate)]
     : a \in [BinSlots -> BinKinds \cup {Absent}]}

GroupedFrames ==
    {f1 \o f2 : f1 \in StreamFrames(Endpoints[1]), f2 \in StreamFrames(Endpoints[2])}

\* A stream of PlantedBins evenly spaced bins: the response time is 100 in
\* every bin but the last, or 101 in the bins of raised, and ten times 100 in
\* the last bin.
PlantedStream(raised) ==
    [n \in 1..PlantedBins |->
        GroupRow("prod", Endpoints[1], n - 1,
                 IF n = PlantedBins THEN RInt(10 * 100)
                 ELSE IF (n - 1) \in raised THEN RInt(101) ELSE RInt(100),
                 RInt(0))]

\* The planted streams with at most two raised bins among the first ones
PlantedFrames ==
    {PlantedStream(raised) :
        raised \in {{}} \cup {{i, j} : i, j \in 0..(PlantedBins - 2)}}

\* The aggregates of a bin whose records have neither a request_id nor a
\* response time
NaNBin == [avg_response_time |-> NaN, error_rate |-> NaN]

\* The frames of one stream with a row in every slot, at least one of them a
\* NaN bin
NaNFrames ==
    {[n \in 1..Cardinality(BinSlots) |->
        LET b == CHOOSE c \in BinSlots : Cardinality({e \in BinSlots : e <= c}) = n
        IN  GroupRow("prod", Endpoints[1], b, a[b].avg_response_time, a[b].error_rate)]
     : a \in {k \in [BinSlots -> BinKinds \cup {NaNBin}] :
                    \E b \in BinSlots : k[b] = NaNBin}}

InitDetect ==
    /\ grouped \in GroupedFrames \cup PlantedFrames \cup NaNFrames
    /\ time_interval = BinMinutes
    /\ detected = NoDetection
    /\ cycle = NoCycle
    /\ JourneysIdle
    /\ op = "loaded"
    /\ history = NoHistory
    /\ df = <<>>
    /\ args = NoArgs
    /\ sampled = <<>>
    /\ windows = <<>>
    /\ result = NoResult
    /\ PollIdle
    /\ rules = <<>>
    /\ verdict = NoVerdict
    /\ AppIdle

\* detect_response_time_spike_anomalies(grouped)
DetectSpike ==
    /\ op = "loaded"
    /\ op' = "detect_spike"
    /\ detected' \in detect_response_time_spike_anomalies(grouped)
    /\ UNCHANGED <<history, poll_vars, df, threshold_vars, rule_vars, frame_vars, cycle, journey_vars,
                   app_vars>>

\* detect_error_rate_anomalies(grouped)
DetectErrorRate ==
    /\ op = "loaded"
    /\ op' = "detect_error_rate"
    /\ detected' \in detect_error_rate_anomalies(grouped)
    /\ UNCHANGED <<history, poll_vars, df, threshold_vars, rule_vars, frame_vars, cycle, journey_vars,
                   app_vars>>

\* One run_pipeline() call of the polling loop; fetch_logs_from_elasticsearch
\* either raises or returns the logs that aggregate into grouped.
RunPipeline(fetch_raises) ==
    /\ op = "loaded"
    /\ op' = "run_pipeline"
    /\ cycle' \in IF fetch_raises THEN {Cycle(FALSE, "fetch", <<>>)}
                  ELSE run_pipeline(grouped)
    /\ UNCHANGED <<history, poll_vars, df, threshold_vars, rule_vars, frame_vars, detected, journey_vars,
                   app_vars>>

NextDetect ==
    \/ DetectSpike
    \/ DetectErrorRate
    \/ \E fetch_raises \in BOOLEAN : RunPipeline(fetch_raises)

SpecDetect == InitDetect /\ [][NextDetect]_vars

----------------------------------------------------------------------------
(* Specification of the pattern-change detectors: a frame of two streams,   *)
(* aggregated at one of the intervals the dashboards offer, is given to     *)
(* one of the detectors.                                                     *)

\* The aggregation intervals of the sidebar selectbox, in minutes
Intervals == {15, 30, 60}

\* The slope thresholds the demo detector is called with: its default, the
\* dashboard's and main's
DemoThresholds == {RInt(5), Rat(5, 4), RInt(2)}

FixedSlopeThreshold == 10   \* slope_threshold_per_interval=10

\* A response-time series that rises by step per bin from 100
Rising(n, step) == [k \in 1..n |-> 100 + (k - 1) * step]

\* The response-time series of a stream, one value per consecutive bin: flat
\* and steadily rising ones of TrendBins bins, a slowly rising one, one with
\* exactly min_intervals bins, a late jump, saw-tooths whose fitted slope is
\* steep but not significant, and streams of two, one and no bins.
TrendSeries ==
    {Rising(TrendBins, 0), Rising(TrendBins, 50), Rising(TrendBins, 8),
     Rising(MinIntervals, 50),
     <<0, 100, 100, 100, 100, 100, 200>>,
     <<100, 300, 100, 300, 100, 300>>,
     <<100, 200, 100, 200>>,
     <<100, 200>>, <<100>>, <<>>}

OtherSeries == {<<>>, Rising(TrendBins, 0), Rising(TrendBins, 50), <<100, 200>>}

TrendStream(endpoint, interval, series) ==
    [k \in 1..Len(series) |->
        IntervalRow("prod", endpoint, k - 1, interval, RInt(series[k]), RInt(0))]

InitPattern ==
    /\ time_interval \in Intervals
    /\ \E s1 \in TrendSeries, s2 \in OtherSeries :
            grouped = TrendStream(Endpoints[1], time_interval, s1)
                      \o TrendStream(Endpoints[2], time_interval, s2)
    /\ detected = NoDetection
    /\ cycle = NoCycle
    /\ JourneysIdle
    /\ op = "loaded"
    /\ history = NoHistory
    /\ df = <<>>
    /\ args = NoArgs
    /\ sampled = <<>>
    /\ windows = <<>>
    /\ result = NoResult
    /\ PollIdle
    /\ rules = <<>>
    /\ verdict = NoVerdict
    /\ AppIdle

\* detect_response_time_pattern_change(grouped, ev_target_quantile=0.99) of
\* automodel.py, as main() and the dashboard call it
PatternDynamic ==
    /\ op = "loaded"
    /\ op' = "pattern_dynamic"
    /\ detected' \in detect_response_time_pattern_change(grouped)
    /\ UNCHANGED <<history, poll_vars, df, threshold_vars, rule_vars, frame_vars, cycle, journey_vars,
                   app_vars>>

\* detect_response_time_pattern_change_demo(grouped, slope_threshold)
PatternDemo(slope_threshold) ==
    /\ op = "loaded"
    /\ op' = "pattern_demo"
    /\ detected' \in detect_response_time_pattern_change_demo(grouped, slope_threshold)
    /\ UNCHANGED <<history, poll_vars, df, threshold_vars, rule_vars, frame_vars, cycle, journey_vars,
                   app_vars>>

\* detect_response_time_pattern_change(grouped, min_intervals=6,
\* slope_threshold_per_interval=10) of finalML/model.py, whose main() bins at
\* 15 minutes
PatternFixed ==
    /\ op = "loaded"
    /\ time_interval = BinMinutes
    /\ op' = "pattern_fixed"
    /\ detected' \in detect_response_time_pattern_change_fixed(
                        grouped, MinIntervals, RInt(FixedSlopeThreshold))
    /\ UNCHANGED <<history, poll_vars, df, threshold_vars, rule_vars, frame_vars, cycle, journey_vars,
                   app_vars>>

NextPattern ==
    \/ PatternDynamic
    \/ \E slope_threshold \in DemoThresholds : PatternDemo(slope_threshold)
    \/ PatternFixed

SpecPattern == InitPattern /\ [][NextPattern]_vars

----------------------------------------------------------------------------
(* Specification of the evaluation cycle of main(): the loaded log table is *)
(* aggregated into bins, the bins are sampled, and the journeys of the      *)
(* table are analysed and forecast.                                         *)

LogTimes == {0, 15 * Minute + 1, 30 * Minute + 1}

\* Response time and error flag of a log record
LogKinds == {<<100, 0>>, <<200, 0>>, <<200, 1>>}

\* The records with a request_id, calm /login records without one, and
\* /login records of the first request in a second environment
LogRows ==
    {LogRow(ts, Endpoints[e], kind[1], kind[2], RequestIds[r]) :
        ts \in LogTimes, e \in 1..2, kind \in LogKinds, r \in 1..2}
    \cup {LogRow(ts, Endpoints[1], 100, flag, NoRequestId) :
                ts \in LogTimes, flag \in {0, 1}}
    \cup {[LogRow(ts, Endpoints[1], kind[1], kind[2], RequestIds[1])
                EXCEPT !.environment = "cloud"] : ts \in LogTimes, kind \in LogKinds}

\* The log tables of at most MaxLogs records in time order
LogBatches ==
    {b \in UNION {[1..n -> LogRows] : n \in 1..MaxLogs} :
        \A i \in 1..(Len(b) - 1) : b[i].timestamp <= b[i + 1].timestamp}

InitCycle ==
    /\ df \in LogBatches
    /\ op = "loaded"
    /\ history = NoHistory
    /\ args = NoArgs
    /\ sampled = <<>>
    /\ windows = <<>>
    /\ result = NoResult
    /\ PollIdle
    /\ rules = <<>>
    /\ verdict = NoVerdict
    /\ DetectorsIdle
    /\ AppIdle

\* grouped = preprocess_data(df, time_interval)
PreprocessData(interval) ==
    /\ op = "loaded"
    /\ op' = "preprocess_data"
    /\ LET done == preprocess_data(df, interval)
       IN  df' = done.df /\ grouped' = done.grouped
    /\ time_interval' = interval
    /\ UNCHANGED <<history, poll_vars, threshold_vars, rule_vars, detected, cycle, journey_vars, app_vars>>

\* compute_sliding_window_avg(group, 15, avg_response_time) on the first
\* group of grouped, as the spike detector calls it
SampleBins ==
    /\ op = "preprocess_data"
    /\ op' = "compute_sliding_window_avg"
    /\ sampled' = compute_sliding_window_avg(
                    group_of(grouped, group_keys(grouped)[1]), SpikeWindow,
                    "avg_response_time")
    /\ UNCHANGED <<history, poll_vars, df, args, windows, result, rule_vars, detect_vars, app_vars>>

\* journey_group = analyze_request_journeys(df)
AnalyzeJourneys ==
    /\ op = "preprocess_data"
    /\ op' = "analyze_request_journeys"
    /\ journey_group' = analyze_request_journeys(df)
    /\ UNCHANGED <<history, poll_vars, df, threshold_vars, rule_vars, frame_vars, detected, cycle,
                   forecast, app_vars>>

\* journey_forecast = forecast_journey_anomalies(journey_group, time_interval)
ForecastJourneys ==
    /\ op = "analyze_request_journeys"
    /\ op' = "forecast_journey_anomalies"
    /\ \E done \in forecast_journey_anomalies(journey_group, time_interval) :
            journey_group' = done.journey_group /\ forecast' = done.forecast
    /\ UNCHANGED <<history, poll_vars, df, threshold_vars, rule_vars, frame_vars, detected, cycle,
                   app_vars>>

NextCycle ==
    \/ \E interval \in Intervals : PreprocessData(interval)
    \/ SampleBins
    \/ AnalyzeJourneys
    \/ ForecastJourneys

SpecCycle == InitCycle /\ [][NextCycle]_vars

----------------------------------------------------------------------------
(* Specification of repeated calls: within one process the threshold entry  *)
(* point and Rule.evaluate are called again and again, on the batch loaded  *)
(* at the time, and every call is recorded with what it was given and what  *)
(* it returned.                                                              *)

\* The n-th member of a set in a fixed enumeration of it
RECURSIVE Nth(_, _)
Nth(S, n) ==
    LET first == CHOOSE x \in S : TRUE
    IN  IF n = 1 THEN first ELSE Nth(S \ {first}, n - 1)

\* Mutant: KMeans(n_clusters=2).fit(X), every call seeded afresh
without_random_state(outcomes, seed) == outcomes

\* KMeans(n_clusters=2, random_state=42).fit(X), genpareto.fit and round():
\* among the outcomes the libraries could produce for an input, the fixed
\* seed and the input determine the one produced.
with_random_state(outcomes, seed) ==
    {Nth(outcomes, ((seed - 1) % Cardinality(outcomes)) + 1)}

\* The fields of a rule after evaluate(df, current_time): evaluate assigns no
\* attribute of self
Rule_after_evaluate(rule, rows, current_time) == rule

\* A batch whose one-minute 500-counts are all equal, so that the clustering
\* has more than one possible outcome
SteadyBatch == <<Row(0, 500, RInt(50)), Row(Minute, 500, RInt(50)),
                 Row(2 * Minute, 200, RInt(50))>>

RepeatBatches == {SteadyBatch, LongBatch}

RepeatWindows == {1, 2}

RepeatTimes == {Minute, 2 * Minute}

Call(name, events, input, output, rule_before, rule_after) ==
    [call |-> name, events |-> events, input |-> input, output |-> output,
     rule_before |-> rule_before, rule_after |-> rule_after]

Record(entry) == [history EXCEPT !.calls = Append(@, entry)]

InitRepeat ==
    /\ df \in RepeatBatches
    /\ \E seed \in 1..MaxSeed : history = [seed |-> seed, calls |-> <<>>]
    /\ rules = <<Rule(1, 1, "count_500", RInt(1), "Warning")>>
    /\ op = "loaded"
    /\ args = NoArgs
    /\ sampled = <<>>
    /\ windows = <<>>
    /\ result = NoResult
    /\ PollIdle
    /\ verdict = NoVerdict
    /\ DetectorsIdle
    /\ AppIdle

\* Another batch is loaded
LoadEvents(events) ==
    /\ Len(history.calls) < MaxCalls
    /\ df # events
    /\ df' = events
    /\ op' = "loaded"
    /\ UNCHANGED <<history, poll_vars, threshold_vars, rule_vars, detect_vars, app_vars>>

\* compute_hybrid_threshold(df, window_minutes, count_500, 0.99)
ThresholdCall(window_minutes) ==
    /\ Len(history.calls) < MaxCalls
    /\ op' = "count_threshold"
    /\ args' = Args(window_minutes, "count_500", 990, TRUE)
    /\ sampled' = compute_sliding_window_metrics(df, window_minutes, "count_500")
    /\ windows' = Column(sliding_window(df, window_minutes, "count_500"), "start")
    /\ result' \in with_random_state(
                    compute_hybrid_threshold(df, window_minutes, "count_500", 990, TRUE),
                    history.seed)
    /\ history' = Record(Call("threshold", df, args', result', rules[1], rules[1]))
    /\ UNCHANGED <<poll_vars, df, rule_vars, detect_vars, app_vars>>

\* rules[0].evaluate(df, current_time)
EvaluateCall(current_time) ==
    /\ Len(history.calls) < MaxCalls
    /\ op' = "rule_evaluate"
    /\ verdict' = [current_time |-> current_time,
                   members |-> <<1>>,
                   window_df |-> rule_window_df(rules[1], df, current_time),
                   triggered |-> Rule_evaluate(rules[1], df, current_time)[1],
                   metrics |-> <<Rule_evaluate(rules[1], df, current_time)[2]>>]
    /\ rules' = <<Rule_after_evaluate(rules[1], df, current_time)>>
    /\ history' = Record(Call("evaluate", df, current_time, verdict', rules[1], rules'[1]))
    /\ UNCHANGED <<poll_vars, df, threshold_vars, detect_vars, app_vars>>

NextRepeat ==
    \/ \E events \in RepeatBatches : LoadEvents(events)
    \/ \E window_minutes \in RepeatWindows : ThresholdCall(window_minutes)
    \/ \E current_time \in RepeatTimes : EvaluateCall(current_time)

SpecRepeat == InitRepeat /\ [][NextRepeat]_vars

----------------------------------------------------------------------------
(* The rule-engine section of main() and the dashboard script *)

\* What defines a rule before its threshold is computed
RuleDef(rule_id, window_minutes, condition_func, qpm, level, is_avg) ==
    [rule_id |-> rule_id, window_minutes |-> window_minutes,
     condition_func |-> condition_func, qpm |-> qpm, level |-> level,
     is_avg |-> is_avg]

\* The rules main() appends
MainRuleDefs ==
    <<RuleDef(1, 20, "count_500", 990, "Warning", FALSE),
      RuleDef(2, 20, "count_404", 990, "Warning", FALSE),
      RuleDef(3, 15, "count_post_safari", 990, "Warning", FALSE)>>

\* The rules the dashboard script appends
DashboardRuleDefs ==
    <<RuleDef(1, 20, "count_500", 990, "Warning", FALSE),
      RuleDef(2, 20, "count_500", 995, "Critical", FALSE),
      RuleDef(3, 20, "count_404", 990, "Warning", FALSE),
      RuleDef(4, 20, "count_404", 995, "Critical", FALSE),
      RuleDef(5, 20, "count_403", 990, "Warning", FALSE),
      RuleDef(6, 20, "count_403", 995, "Critical", FALSE),
      RuleDef(7, 20, "count_4xx_5xx", 990, "Warning", FALSE),
      RuleDef(8, 20, "count_4xx_5xx", 995, "Critical", FALSE),
      RuleDef(9, 15, "count_post_safari", 990, "Warning", FALSE),
      RuleDef(10, 30, "count_unknown_browser", 990, "Warning", FALSE),
      RuleDef(11, 10, "avg_cpu_usage", 990, "Warning", TRUE)>>

\* The outcomes of the threshold computation of one rule
threshold_outcomes(def, rows) ==
    IF def.is_avg
    THEN compute_hybrid_avg_threshold(rows, def.window_minutes, def.condition_func, def.qpm)
    ELSE compute_hybrid_threshold(rows, def.window_minutes, def.condition_func, def.qpm, TRUE)

\* The thresholds are computed and the rules appended, in order: the set of
\* outcomes, each either the list of rules or an exception of a threshold
\* computation (nothing catches it).
define_rules(defs, rows) ==
    LET outcome_sets == [i \in 1..Len(defs) |->
            {[raised |-> o.raised, value |-> o.value] : o \in threshold_outcomes(defs[i], rows)}]
    IN  {IF \E i \in 1..Len(defs) : o[i].raised
         THEN [raised |-> TRUE, rules |-> <<>>]
         ELSE [raised |-> FALSE,
               rules |-> [i \in 1..Len(defs) |->
                    Rule(defs[i].rule_id, defs[i].window_minutes,
                         defs[i].condition_func, o[i].value, defs[i].level)]]
         : o \in Choices(outcome_sets)}

\* The comma-separated pieces a user may type, with what str.strip(),
\* str.isdigit() and int() make of them
Tokens == {"1", "2", " 3", "12", "x"}

str_strip(x) == IF x = " 3" THEN "3" ELSE x

str_isdigit(x) == x \in {"1", "2", "3", "12"}

str_int(x) ==
    CASE x = "1" -> 1
      [] x = "2" -> 2
      [] x = "3" -> 3
      [] x = "12" -> 12

\* selected_ids = [int(x.strip()) for x in user_input.split(',') if x.strip().isdigit()]
selected_ids(user_input) ==
    LET digits == SelectSeq(user_input, LAMBDA x : str_isdigit(str_strip(x)))
    IN  [i \in 1..Len(digits) |-> str_int(str_strip(digits[i]))]

\* selected_rules = [r for r in rules if r.rule_id in selected_ids]
selected_rules(rule_list, ids) ==
    SelectSeq(rule_list, LAMBDA r : r.rule_id \in SeqToSet(ids))

\* Mutant: a single selected rule accepted as a combination.
too_few_below_one(selected) == Len(selected) < 1

\* if len(selected_rules) < 2
too_few(selected) == Len(selected) < 2

\* The combination request: what the caller is told and the member rules of
\* the CombinedRule that is created (none when nothing is created). An empty
\* text is no request.
combine_request(rule_list, user_input) ==
    LET selected == selected_rules(rule_list, selected_ids(user_input))
    IN  IF user_input = <<>> THEN [message |-> "no_request", created |-> None]
        ELSE IF too_few(selected) THEN [message |-> "too_few", created |-> None]
        ELSE [message |-> "created", created |-> selected]

\* for rule in rules: rule.evaluate(df, current_time)
evaluate_rules(rule_list, rows, current_time) ==
    [i \in 1..Len(rule_list) |->
        [rule_id |-> rule_list[i].rule_id,
         triggered |-> Rule_evaluate(rule_list[i], rows, current_time)[1],
         observed |-> Rule_evaluate(rule_list[i], rows, current_time)[2]]]

\* combined_rule.evaluate(df, current_time), when there is a combined rule
evaluate_combined(combined_rule, rows, current_time) ==
    IF combined_rule = None THEN <<>>
    ELSE <<[members |-> Column(combined_rule, "rule_id"),
            triggered |-> CombinedRule_evaluate(combined_rule, rows, current_time)[1],
            metrics |-> CombinedRule_evaluate(combined_rule, rows, current_time)[2]]>>

\* What one run showed: whether a combination was requested, the ids of the
\* defined rules it selected, the individual results, what the caller was told,
\* the ids of the members of the combination created and the evaluation of
\* the combination in force.
Report(run, requested, selected, results, message, created, combined) ==
    [crashed |-> FALSE, run |-> run, requested |-> requested, selected |-> selected,
     results |-> results, message |-> message, created |-> created,
     combined |-> combined]

\* A run ended by an uncaught exception
Crash(run) ==
    [crashed |-> TRUE, run |-> run, requested |-> FALSE, selected |-> <<>>,
     results |-> <<>>, message |-> "none", created |-> <<>>, combined |-> <<>>]

\* The report of a run that got past the definition of the rules
run_report(run, rule_list, rows, user_input, combined_before) ==
    LET request == combine_request(rule_list, user_input)
        current_time == ts_max(rows)
        in_force == IF request.created # None THEN request.created ELSE combined_before
    IN  Report(run, user_input # <<>>,
               Column(selected_rules(rule_list, selected_ids(user_input)), "rule_id"),
               evaluate_rules(rule_list, rows, current_time),
               request.message,
               Column(request.created, "rule_id"),
               evaluate_combined(in_force, rows, current_time))

----------------------------------------------------------------------------
(* Specification of the applications: main() is run once on the batch on   *)
(* disk, or the dashboard script is run repeatedly, each run with the      *)
(* upload and the text the user left in the widgets.                       *)

AppRow(ts, status, method, browser) ==
    [timestamp_dt |-> ts, http_status |-> status, http_method |-> method,
     Browser |-> browser, cpu_usage_percent |-> RInt(50)]

\* A batch shorter than every rule window
ShortBatch ==
    <<AppRow(0, 404, "POST", "Safari 13.1.2"),
      AppRow(Minute, 200, "GET", "UNKNOWN")>>

\* A batch spanning exactly the 20-minute window of the count rules
ExactBatch ==
    <<AppRow(0, 500, "GET", "Chrome 90.0.4430"),
      AppRow(20 * Minute, 200, "GET", "Chrome 90.0.4430")>>

\* A batch of 22 minutes: three 20-minute windows with 1, 2 and 1 status 500
WideBatch ==
    <<AppRow(0, 200, "GET", "UNKNOWN"),
      AppRow(Minute, 500, "GET", "Chrome 90.0.4430"),
      AppRow(20 * Minute + 1, 500, "GET", "Chrome 90.0.4430"),
      AppRow(21 * Minute, 404, "POST", "Safari 13.1.2"),
      AppRow(22 * Minute, 200, "GET", "Chrome 90.0.4430")>>

AppBatches == {ShortBatch, ExactBatch, WideBatch}

UserInputs == UNION {[1..n -> Tokens] : n \in 0..MaxTokens}

InitApp ==
    /\ df \in AppBatches
    /\ session = NoSession
    /\ report = NoReport
    /\ op = "loaded"
    /\ history = NoHistory
    /\ args = NoArgs
    /\ sampled = <<>>
    /\ windows = <<>>
    /\ result = NoResult
    /\ PollIdle
    /\ rules = <<>>
    /\ verdict = NoVerdict
    /\ DetectorsIdle

\* The rule-engine section of main(): the rules are defined from df, the user
\* is asked once for the rules to combine, every rule is evaluated and then
\* the combined rule, if one was created.
MainRun(user_input) ==
    /\ op = "loaded"
    /\ op' = "main_run"
    /\ \E d \in define_rules(MainRuleDefs, df) :
        /\ rules' = d.rules
        /\ report' = IF d.raised THEN Crash(1)
                     ELSE run_report(1, d.rules, df, user_input, None)
    /\ UNCHANGED <<history, poll_vars, df, threshold_vars, verdict, detect_vars, session>>

\* One run of the dashboard script. uploaded is the file in the uploader (None
\* when there is none); without an upload and without a batch in the session
\* a random sample batch is generated. The rules are defined only when the
\* session has none; the combined rule created by a request is stored in the
\* session and the one stored there is evaluated.
DashboardRun(uploaded, user_input) ==
    /\ op \in {"loaded", "dashboard_run"}
    /\ report.run < MaxRuns
    /\ op' = "dashboard_run"
    /\ \E generated \in AppBatches :
        LET batch == IF uploaded # None THEN uploaded
                     ELSE IF session.df # None THEN session.df ELSE generated
            defined == IF session.rules # None
                       THEN {[raised |-> FALSE, rules |-> session.rules]}
                       ELSE define_rules(DashboardRuleDefs, batch)
        IN  \E d \in defined :
                IF d.raised
                THEN /\ session' = [session EXCEPT !.df = batch]
                     /\ report' = Crash(report.run + 1)
                ELSE LET request == combine_request(d.rules, user_input)
                     IN  /\ session' =
                                [df |-> batch, rules |-> d.rules,
                                 combined_rule |->
                                    IF request.created # None THEN request.created
                                    ELSE session.combined_rule]
                         /\ report' = run_report(report.run + 1, d.rules, batch,
                                                 user_input, session.combined_rule)
    /\ UNCHANGED <<history, poll_vars, df, threshold_vars, rule_vars, detect_vars>>

NextApp ==
    \/ \E user_input \in UserInputs : MainRun(user_input)
    \/ \E uploaded \in AppBatches \cup {None}, user_input \in UserInputs :
            DashboardRun(uploaded, user_input)

SpecApp == InitApp /\ [][NextApp]_vars

----------------------------------------------------------------------------
(* Specification of the Warning and Critical tiers of a metric: the two    *)
(* thresholds are computed on one batch, the two rules are defined and     *)
(* evaluated at a current time.                                             *)

\* compute_hybrid_threshold with the results of its library calls given: for
\* the same samples the seeded clustering returns the same model and the tail
\* fit the same parameters in every call.
hybrid_resolved(metric_values, fit, tail, qpm, as_int) ==
    IF empty_sample(metric_values) THEN {Ret(RInt(0), "empty", <<>>)}
    ELSE IF kmeans_fit_raises(metric_values) THEN {Raise("kmeans_error", <<>>)}
    ELSE hybrid_after_fits(metric_values, normal_values_of(metric_values, fit), tail,
                           qpm, as_int)

\* The results the library calls can have on the samples of a batch
library_results(metric_values) ==
    IF empty_sample(metric_values) \/ kmeans_fit_raises(metric_values)
    THEN {[fit |-> KMeansFit(<<>>, <<>>), tail |-> GenParetoFit(TRUE, <<>>)]}
    ELSE UNION {{[fit |-> fit, tail |-> tail] :
                    tail \in genpareto_fit(tail_of(normal_values_of(metric_values, fit)))} :
                fit \in kmeans_fits(metric_values)}

Tiers(warning, critical) == [warning |-> warning, critical |-> critical]

\* Mutant: the clustering and the tail fit may come out differently in the
\* two calls.
tier_thresholds_refitted(rows, window_minutes, condition_func) ==
    {Tiers(w, c) :
        w \in compute_hybrid_threshold(rows, window_minutes, condition_func, 990, TRUE),
        c \in compute_hybrid_threshold(rows, window_minutes, condition_func, 995, TRUE)}

\* hybrid_500_warning = compute_hybrid_threshold(df, 20, condition, 0.99)
\* hybrid_500_critical = compute_hybrid_threshold(df, 20, condition, 0.995)
tier_thresholds(rows, window_minutes, condition_func) ==
    LET metric_values == compute_sliding_window_metrics(rows, window_minutes, condition_func)
    IN  UNION {{Tiers(w, c) :
                    w \in hybrid_resolved(metric_values, lib.fit, lib.tail, 990, TRUE),
                    c \in hybrid_resolved(metric_values, lib.fit, lib.tail, 995, TRUE)} :
                lib \in library_results(metric_values)}

TierBatches ==
    UNION {Canonical(StatusRows, n) : n \in 0..MaxRuleEvents} \cup {LongBatch, TailBatch}

TierConditions == {"count_500", "count_404"}

InitTiers ==
    /\ df \in TierBatches
    /\ op = "loaded"
    /\ history = NoHistory
    /\ args = NoArgs
    /\ sampled = <<>>
    /\ windows = <<>>
    /\ result = NoResult
    /\ PollIdle
    /\ rules = <<>>
    /\ verdict = NoVerdict
    /\ DetectorsIdle
    /\ AppIdle

\* The two thresholds are computed and the Warning and the Critical rule of
\* the metric appended; an exception of either computation ends the script.
DefineTiers(window_minutes, condition_func) ==
    /\ op = "loaded"
    /\ args' = Args(window_minutes, condition_func, 0, TRUE)
    /\ \E tiers \in tier_thresholds(df, window_minutes, condition_func) :
        IF tiers.warning.raised \/ tiers.critical.raised
        THEN /\ op' = "crashed"
             /\ rules' = <<>>
        ELSE /\ op' = "tiers_defined"
             /\ rules' = <<Rule(1, window_minutes, condition_func,
                                tiers.warning.value, "Warning"),
                           Rule(2, window_minutes, condition_func,
                                tiers.critical.value, "Critical")>>
    /\ UNCHANGED <<history, poll_vars, df, sampled, windows, result, verdict, detect_vars, app_vars>>

\* triggered, metric = rule.evaluate(df, current_time), for both rules
EvaluateTiers(current_time) ==
    /\ op = "tiers_defined"
    /\ op' = "tiers_evaluated"
    /\ report' = [NoReport EXCEPT !.run = 1,
                                  !.results = evaluate_rules(rules, df, current_time)]
    /\ UNCHANGED <<history, poll_vars, df, threshold_vars, rule_vars, detect_vars, session>>

NextTiers ==
    \/ \E w \in 1..MaxWindow, c \in TierConditions : DefineTiers(w, c)
    \/ \E t \in EvalTimes \cup SeqToSet(Column(df, "timestamp_dt")) : EvaluateTiers(t)

SpecTiers == InitTiers /\ [][NextTiers]_vars

----------------------------------------------------------------------------
(* Specification of the polling loop of pipeline.py: while True, one        *)
(* run_pipeline cycle inside try / except Exception, then time.sleep.       *)

\* The class of the exception a cycle ended with: es.search and es.index
\* raise the client's ConnectionError or TransportError, the threshold
\* computation of a detector raises ValueError. All derive from Exception.
exception_of(outcome) ==
    CASE outcome.raised_in \in {"fetch", "push"} -> "ConnectionError"
      [] outcome.raised_in \in {"spike", "error_rate"} -> "ValueError"
      [] OTHER -> "none"

\* Mutant: except ValueError in place of except Exception.
except_ValueError(exception) == exception = "ValueError"

\* except Exception as e
except_Exception(exception) == exception \in {"ValueError", "ConnectionError"}

\* The aggregated frames of the logs a cycle fetches: one stream
PollFrames == StreamFrames(Endpoints[1])

InitPolling ==
    /\ df = <<>>
    /\ op = "loaded"
    /\ history = NoHistory
    /\ args = NoArgs
    /\ sampled = <<>>
    /\ windows = <<>>
    /\ result = NoResult
    /\ rules = <<>>
    /\ verdict = NoVerdict
    /\ DetectorsIdle
    /\ AppIdle
    /\ loop = "try"
    /\ last_fetch_time = 0
    /\ utcnow = 0
    /\ queries = <<>>

\* try: run_pipeline(): the cycle fetches, aggregates, detects and pushes; it
\* returns, or an exception leaves it and reaches the except clause or, when
\* the clause does not match, ends the script.
TryRunPipeline(frame, fetch_raises) ==
    /\ loop = "try"
    /\ op' = "run_pipeline"
    /\ grouped' = IF fetch_raises THEN <<>> ELSE frame
    /\ \E outcome \in IF fetch_raises THEN {Cycle(FALSE, "fetch", <<>>)}
                      ELSE run_pipeline(frame) :
            /\ cycle' = outcome
            /\ loop' = IF outcome.returned THEN "sleep"
                       ELSE IF except_Exception(exception_of(outcome)) THEN "except"
                       ELSE "terminated"
    /\ UNCHANGED <<history, df, threshold_vars, rule_vars, detected, time_interval,
                   journey_vars, app_vars, last_fetch_time, utcnow, queries>>

\* except Exception as e: print(f"Pipeline error: {e}")
PrintPipelineError ==
    /\ loop = "except"
    /\ loop' = "sleep"
    /\ op' = "print"
    /\ UNCHANGED <<history, df, threshold_vars, rule_vars, detect_vars, app_vars,
                   last_fetch_time, utcnow, queries>>

\* time.sleep(POLL_INTERVAL) returns and the while loop starts over
Sleep ==
    /\ loop = "sleep"
    /\ loop' = "try"
    /\ op' = "sleep"
    /\ UNCHANGED <<history, df, threshold_vars, rule_vars, detect_vars, app_vars,
                   last_fetch_time, utcnow, queries>>

NextPolling ==
    \/ \E frame \in PollFrames, fetch_raises \in BOOLEAN : TryRunPipeline(frame, fetch_raises)
    \/ PrintPipelineError
    \/ Sleep

SpecPolling == InitPolling /\ [][NextPolling]_vars

\* The script is a sequential process that keeps running: every statement it
\* reaches is executed, the calls to Elasticsearch return or raise, and
\* time.sleep returns.
SpecPollingLive == SpecPolling /\ WF_vars(NextPolling)

----------------------------------------------------------------------------
(* Specification of the polling script fetch_and_process.py: the module     *)
(* global last_fetch_time, fetch_new_logs and the loop that calls it every  *)
(* five minutes. The clock only moves forward.                              *)

\* The clock when the module is imported, the longest a search or the part
\* of a period beyond the five minutes takes, and the calls modelled
StartClock == 10
MaxDelay == 2
MaxFetches == 3

\* timedelta(minutes=5), in ticks
FiveMinutes == 5 * Minute

Query(gt, lte) == [gt |-> gt, lte |-> lte]

\* Mutant: last_fetch_time assigned before the search is made.
fetch_new_logs_assigning_first(last, now, search_raises) ==
    [query |-> Query(last, now), raised |-> search_raises, last_fetch_time |-> now]

\* fetch_new_logs(): the range queried, whether es.search raised, and
\* last_fetch_time after the call (assigned after the search returned)
fetch_new_logs(last, now, search_raises) ==
    [query |-> Query(last, now), raised |-> search_raises,
     last_fetch_time |-> IF search_raises THEN last ELSE now]

\* last_fetch_time = datetime.utcnow() - timedelta(minutes=5)
InitFetch ==
    /\ df = <<>>
    /\ op = "loaded"
    /\ history = NoHistory
    /\ args = NoArgs
    /\ sampled = <<>>
    /\ windows = <<>>
    /\ result = NoResult
    /\ rules = <<>>
    /\ verdict = NoVerdict
    /\ DetectorsIdle
    /\ AppIdle
    /\ loop = "fetch"
    /\ utcnow = StartClock
    /\ last_fetch_time = StartClock - FiveMinutes
    /\ queries = <<>>

\* df_logs = fetch_new_logs(): the search takes some time; an exception of
\* es.search is not caught and ends the script.
FetchNewLogs(search_raises, took) ==
    /\ loop = "fetch"
    /\ Len(queries) < MaxFetches
    /\ op' = "fetch_new_logs"
    /\ LET call == fetch_new_logs(last_fetch_time, utcnow, search_raises)
       IN  /\ queries' = Append(queries, call)
           /\ last_fetch_time' = call.last_fetch_time
           /\ loop' = IF call.raised THEN "terminated" ELSE "sleep"
    /\ utcnow' = utcnow + took
    /\ UNCHANGED <<history, df, threshold_vars, rule_vars, detect_vars, app_vars>>

\* print(...); time.sleep(5 * 60)
SleepFiveMinutes(over) ==
    /\ loop = "sleep"
    /\ loop' = "fetch"
    /\ op' = "sleep"
    /\ utcnow' = utcnow + FiveMinutes + over
    /\ UNCHANGED <<history, df, threshold_vars, rule_vars, detect_vars, app_vars,
                   last_fetch_time, queries>>

NextFetch ==
    \/ \E search_raises \in BOOLEAN, took \in 0..MaxDelay : FetchNewLogs(search_raises, took)
    \/ \E over \in 0..MaxDelay : SleepFiveMinutes(over)

SpecFetch == InitFetch /\ [][NextFetch]_vars

----------------------------------------------------------------------------
(* Properties of the sampler and the threshold entry points (SpecThreshold) *)

Span(rows) == ts_max(rows) - ts_min(rows)

SamplerOps == {"sample", "count_threshold", "avg_threshold"}
ThresholdOps == {"count_threshold", "avg_threshold"}

\* The rows of [s, s + w minutes)
InWindow(rows, s, window_minutes) ==
    SelectSeq(rows, LAMBDA r :
        r.timestamp_dt >= s /\ r.timestamp_dt < s + window_minutes * Minute)

\* C5: for every batch whose time span (max timestamp - min timestamp) is
\* shorter than windowMinutes, the sliding-window sampler returns an empty
\* sequence.
C5_ShortSpanYieldsNoSamples ==
    (op \in SamplerOps /\ df # <<>> /\ Span(df) < args.window_minutes * Minute)
        => sampled = <<>>

C5_Witness ==
    /\ op = "sample"
    /\ Len(df) >= 2
    /\ Span(df) > 0
    /\ Span(df) < args.window_minutes * Minute
    /\ sampled = <<>>

\* The starts s = min(timestamp) + k minutes whose window ends at or before
\* max(timestamp).
FittingStarts(rows, window_minutes) ==
    IF rows = <<>> THEN {}
    ELSE {s \in {ts_min(rows) + k * Minute : k \in 0..Span(rows)} :
            s + window_minutes * Minute <= ts_max(rows)}

\* C6: the sampler emits, in increasing order, exactly one sample for each
\* window [s, s + W) with s = min(timestamp) + k minutes and
\* s + W <= max(timestamp), and no other sample; every emitted window lies
\* inside [min(timestamp), max(timestamp)].
C6_OneSamplePerFittingWindow ==
    op \in SamplerOps =>
        /\ Len(sampled) = Len(windows)
        /\ \A i \in 1..(Len(windows) - 1) : windows[i] < windows[i + 1]
        /\ SeqToSet(windows) = FittingStarts(df, args.window_minutes)
        /\ \A i \in 1..Len(windows) :
            /\ windows[i] >= ts_min(df)
            /\ windows[i] + args.window_minutes * Minute <= ts_max(df)
            /\ sampled[i] = Apply(args.condition_func,
                                  InWindow(df, windows[i], args.window_minutes))

C6_Witness ==
    /\ op = "sample"
    /\ Len(windows) >= 3
    /\ windows[Len(windows)] + args.window_minutes * Minute = ts_max(df)
    /\ \E i \in 1..Len(sampled) : sampled[i] # RInt(0)

\* C7: when the sampled sequence is empty, both threshold entry points (count
\* and average) return exactly 0 and do not raise.
C7_EmptySampleReturnsZero ==
    (op \in ThresholdOps /\ sampled = <<>>)
        => (~result.raised /\ result.value = RInt(0))

C7_Witness ==
    /\ op = "avg_threshold"
    /\ df # <<>>
    /\ sampled = <<>>
    /\ result.value = RInt(0)

\* C8: for every non-empty sampled sequence, including a sequence of a single
\* sample and an all-equal sequence, the count threshold computation does not
\* raise: it degrades to the percentile fallback and returns a number. (Stated
\* for the samples too short for a tail fit, the degenerate inputs the claim
\* names; an error of the fit itself on a long sample is left aside.)
C8_NonEmptySampleNeverRaises ==
    (op = "count_threshold" /\ sampled # <<>> /\ Len(sampled) < MinExceedances)
        => /\ ~result.raised
           /\ result.value # NoValue
           /\ result.path \in {"whole", "normal"}

\* The number of normal-regime values strictly above its 90th percentile
CountAboveBaseline(normal_values) ==
    Cardinality({i \in 1..Len(normal_values) :
        RGt(normal_values[i], np_percentile(normal_values, BaselinePercentile))})

\* C9: the count threshold takes the EVT path only when the normal regime is
\* non-empty and has at least 10 values strictly above its 90th percentile u;
\* otherwise it falls back to the quantile-th percentile of the whole sample
\* when the normal regime is empty, and of the normal regime alone when there
\* are fewer than 10 exceedances.
C9_EvtOnlyWithEnoughExceedances ==
    (op = "count_threshold" /\ Len(sampled) >= NClusters) =>
        LET nv == result.normal_values
        IN  /\ result.path \in {"evt", "fit_error", "whole", "normal"}
            /\ result.path \in {"evt", "fit_error"}
                => (Len(nv) > 0 /\ CountAboveBaseline(nv) >= MinExceedances)
            /\ result.path = "whole"
                => /\ Len(nv) = 0
                   /\ result.value \in convert(np_percentile(sampled, args.qpm), args.as_int)
            /\ result.path = "normal"
                => /\ Len(nv) > 0
                   /\ CountAboveBaseline(nv) < MinExceedances
                   /\ result.value \in convert(np_percentile(nv, args.qpm), args.as_int)

C9_Witness ==
    /\ op = "count_threshold"
    /\ result.path = "evt"
    /\ CountAboveBaseline(result.normal_values) = MinExceedances

----------------------------------------------------------------------------
(* Properties of rule evaluation (SpecRules) *)

\* C1: Rule.evaluate(events, t) for a rule with window w applies the condition
\* function to exactly the events whose timestamp lies in (t - w, t]: an event
\* stamped exactly t - w is excluded and an event stamped exactly t is included.
C1_WindowIsHalfOpen ==
    op = "rule_evaluate" =>
        LET rule == rules[verdict.members[1]]
            t == verdict.current_time
        IN  verdict.window_df =
                SelectSeq(df, LAMBDA r :
                    /\ r.timestamp_dt > t - rule.window_minutes * Minute
                    /\ r.timestamp_dt <= t)

\* C2: CombinedRule.evaluate(events, t) returns triggered = true exactly when
\* every member rule's own evaluate(events, t) is triggered, together with the
\* list of the members' observed values, one per member and in member order.
C2_CombinedIsConjunction ==
    op = "combined_evaluate" =>
        LET m == verdict.members
            t == verdict.current_time
        IN  /\ verdict.triggered
                <=> (\A k \in 1..Len(m) : Rule_evaluate(rules[m[k]], df, t)[1])
            /\ Len(verdict.metrics) = Len(m)
            /\ \A k \in 1..Len(m) :
                verdict.metrics[k] = Rule_evaluate(rules[m[k]], df, t)[2]

\* Two members, the first triggered and the second not: the combination is not
\* triggered and reports both observed values.
C2_Witness ==
    /\ op = "combined_evaluate"
    /\ Len(verdict.members) = 2
    /\ Rule_evaluate(rules[verdict.members[1]], df, verdict.current_time)[1]
    /\ ~Rule_evaluate(rules[verdict.members[2]], df, verdict.current_time)[1]
    /\ verdict.metrics[1] # verdict.metrics[2]
    /\ ~verdict.triggered

----------------------------------------------------------------------------
(* Properties of the detectors and the pipeline cycle (SpecDetect) *)

DetectorOps == {"detect_spike", "detect_error_rate"}

DetectorColumn == IF op = "detect_spike" THEN "avg_response_time" ELSE "error_rate"

\* C4: a computed threshold means "at or above is abnormal" for every
\* consumer: the spike detector and the error-rate detector, like
\* Rule.evaluate, flag a bin exactly when its value v satisfies
\* v >= threshold, so a bin whose value equals the threshold is flagged.
C4_AtOrAboveIsAbnormal ==
    (op \in DetectorOps /\ ~detected.raised) =>
        \A i \in 1..Len(detected.thresholds) :
            LET entry == detected.thresholds[i]
                group == group_of(grouped, entry.key)
            IN  \A k \in 1..Len(group) :
                    RGe(group[k][DetectorColumn], entry.outcome.value)
                        <=> \E n \in 1..Len(detected.anomalies) :
                                detected.anomalies[n].row = group[k]

\* C10: when the threshold computation fails for one stream, the detector
\* still evaluates every other stream of the batch and returns their anomaly
\* records: no detector call, and no pipeline cycle, is aborted by a stream's
\* threshold computation.
C10_StreamFailureIsIsolated ==
    /\ op \in DetectorOps =>
            /\ ~detected.raised
            /\ Len(detected.thresholds) = Len(group_keys(grouped))
    /\ op = "run_pipeline" => cycle.raised_in \notin {"spike", "error_rate"}

----------------------------------------------------------------------------
(* Properties of the rule-combination request (SpecApp) *)

AppOps == {"main_run", "dashboard_run"}

\* The rules in force in the run that produced the current state
RulesInForce == IF op = "main_run" THEN rules ELSE session.rules

\* Every defined rule was evaluated on its own, in order
EveryRuleEvaluated ==
    Column(report.results, "rule_id") = Column(RulesInForce, "rule_id")

\* C3 (as stated): after any rule-combination request, a CombinedRule exists
\* and is evaluated only if at least two defined rules were selected; when
\* fewer than two are selected no combination is created, the caller is told
\* so, and every individual rule is still evaluated on its own.
C3_CombinationOnlyWhenTwoSelected ==
    (op \in AppOps /\ ~report.crashed /\ report.requested) =>
        /\ report.combined # <<>> => Len(report.selected) >= 2
        /\ Len(report.selected) < 2 =>
                /\ report.created = <<>>
                /\ report.message = "too_few"
                /\ EveryRuleEvaluated

\* C3 (amended): a rule-combination request creates a CombinedRule exactly
\* when it selects at least two defined rules, and the members are the
\* selected rules; when fewer than two are selected the request creates no
\* combination, the caller is told so, and every individual rule is still
\* evaluated on its own. Every CombinedRule that is evaluated has at least
\* two members: it is the one this request created or, in the dashboard, the
\* one an earlier request left in the session.
C3_CombinationCreatedOnlyFromTwoSelected ==
    (op \in AppOps /\ ~report.crashed /\ report.requested) =>
        /\ report.created # <<>> <=> Len(report.selected) >= 2
        /\ report.created # <<>> =>
                /\ report.created = report.selected
                /\ report.message = "created"
                /\ report.combined # <<>>
                /\ report.combined[1].members = report.created
        /\ Len(report.selected) < 2 =>
                /\ report.message = "too_few"
                /\ EveryRuleEvaluated
                /\ report.combined # <<>> => op = "dashboard_run"
        /\ report.combined # <<>> =>
                /\ Len(report.combined[1].members) >= 2
                /\ op = "dashboard_run" =>
                        report.combined[1].members = Column(session.combined_rule, "rule_id")

\* A request selecting a single rule in a session that holds an earlier
\* combination: refused, and the earlier combination is evaluated.
C3_Witness ==
    /\ op = "dashboard_run"
    /\ report.requested
    /\ Len(report.selected) = 1
    /\ report.message = "too_few"
    /\ report.created = <<>>
    /\ report.combined # <<>>
    /\ EveryRuleEvaluated

\* The anomaly records a detector call emitted for one stream
RecordsOf(key) ==
    SelectSeq(detected.anomalies, LAMBDA a : GroupKey(a.row) = key)

\* C11: a stream that has zero or one aggregated bin yields no anomaly record
\* and no error from a detector, whatever the value in that bin.
C11_SingleBinStreamIsSkipped ==
    op \in DetectorOps =>
        \A i \in 1..Len(detected.thresholds) :
            LET entry == detected.thresholds[i]
            IN  Len(group_of(grouped, entry.key)) <= 1 =>
                    /\ ~entry.outcome.raised
                    /\ RecordsOf(entry.key) = <<>>

\* C12: for a stream of 20 evenly spaced bins whose first 19 values are within
\* 1 of each other and whose last value is 10 times larger, the spike detector
\* at quantile 0.99 flags the last bin and none of the first 19 bins.
C12_OnlyPlantedBinFlagged ==
    (op = "detect_spike" /\ grouped \in PlantedFrames) =>
        /\ ~detected.raised
        /\ Column(detected.anomalies, "row") = <<grouped[Len(grouped)]>>

PatternOps == {"pattern_dynamic", "pattern_demo", "pattern_fixed"}

\* The threshold a pattern detector compared the slope of a stream with
ComparedWith(key) == SelectSeq(detected.thresholds, LAMBDA e : e.key = key)

\* The slope per interval the detector computes for a stream
SlopeOf(key) == per_interval(group_slope(group_of(grouped, key)))

\* C13: in every mode the pattern-change detector flags a stream exactly when
\* the stream has at least min_intervals bins, its slope per interval exceeds
\* the threshold and the regression's p-value is below 0.05. (A slope equal
\* to the threshold is left to rounding.)
C13_FlaggedExactlyWhenSteepAndSignificant ==
    op \in PatternOps =>
        \A key \in SeqToSet(group_keys(grouped)) :
            LET group == group_of(grouped, key)
                flagged == RecordsOf(key) # <<>>
                threshold == ComparedWith(key)[1].outcome.value
            IN  /\ flagged =>
                    /\ Len(group) >= MinIntervals
                    /\ RGe(SlopeOf(key), threshold)
                    /\ group_significant(group)
                /\ ( /\ Len(group) >= MinIntervals
                     /\ RGt(SlopeOf(key), threshold)
                     /\ group_significant(group) ) => flagged

\* C14: a stream the pattern-change detector triggers for contributes exactly
\* one record, the row of its largest time_bin, and no stream contributes more
\* than one record to one evaluation.
C14_OneRecordOfMostRecentBin ==
    op \in PatternOps =>
        \A key \in SeqToSet(group_keys(grouped)) :
            LET records == RecordsOf(key)
                group == group_of(grouped, key)
            IN  /\ Len(records) <= 1
                /\ records # <<>> =>
                        /\ records[1].row \in SeqToSet(group)
                        /\ \A k \in 1..Len(group) :
                                group[k].time_bin <= records[1].row.time_bin

\* Both streams of a frame trigger, each with more than one bin
C14_Witness ==
    /\ op \in PatternOps
    /\ Len(detected.anomalies) = 2
    /\ \A key \in SeqToSet(group_keys(grouped)) :
            Len(group_of(grouped, key)) > 1 /\ Len(RecordsOf(key)) = 1

\* The length in seconds of the aggregation interval of grouped
IntervalSeconds == time_interval * 60

\* C15: the slope per interval a pattern-change record reports is the
\* regression slope per second multiplied by the length in seconds of the
\* aggregation interval actually used for the bins.
C15_SlopeScaledByIntervalUsed ==
    op \in PatternOps =>
        \A i \in 1..Len(detected.anomalies) :
            LET record == detected.anomalies[i]
                group == group_of(grouped, GroupKey(record.row))
            IN  record.slope_per_interval = RMul(group_slope(group), RInt(IntervalSeconds))

\* What the detector that ran does with the bins of one stream alone
AloneOutcomes(key) ==
    IF op = "detect_spike"
    THEN detect_response_time_spike_anomalies(group_of(grouped, key))
    ELSE detect_error_rate_anomalies(group_of(grouped, key))

\* Whether the threshold computation of a stream raised in the call
RaisedAt(key) ==
    \E i \in 1..Len(detected.thresholds) :
        detected.thresholds[i].key = key /\ detected.thresholds[i].outcome.raised

\* C16: what a detector emits for a stream depends only on that stream's own
\* bins: within any batch it is what the detector emits for the stream when
\* the bins of every other stream are removed.
C16_StreamResultDependsOnOwnBinsOnly ==
    op \in DetectorOps =>
        \A key \in SeqToSet(group_keys(grouped)) :
            \E alone \in AloneOutcomes(key) :
                /\ alone.raised = RaisedAt(key)
                /\ alone.anomalies = RecordsOf(key)

\* C17: no operation of an evaluation cycle modifies the table it was handed:
\* the log table keeps its rows, columns and values through every step, the
\* aggregated frame through sampling, and the journey table through the
\* forecast.
C17_CallerTablesUnmodified ==
    [][ /\ df' = df
        /\ op' = "compute_sliding_window_avg" => grouped' = grouped
        /\ op' = "forecast_journey_anomalies" => journey_group' = journey_group ]_vars

\* Two recorded calls of the same operation with identical events and inputs
SameCall(a, b) == a.call = b.call /\ a.events = b.events /\ a.input = b.input

EvaluatedBatch == IF op = "main_run" THEN df ELSE session.df
DefsInForce == IF op = "main_run" THEN MainRuleDefs ELSE DashboardRuleDefs

\* C19: whenever rules are evaluated against a batch, the threshold of every
\* rule is one computed from that same batch.
C19_ThresholdsFromEvaluatedBatch ==
    (op \in AppOps /\ ~report.crashed) =>
        \A i \in 1..Len(RulesInForce) :
            \E o \in threshold_outcomes(DefsInForce[i], EvaluatedBatch) :
                ~o.raised /\ o.value = RulesInForce[i].threshold

\* C20: one run_pipeline cycle is all-or-nothing: either it runs to its end
\* and the anomaly records of all three types are pushed, or none of the
\* cycle's records are pushed.
C20_PushIsAllOrNothing ==
    op = "run_pipeline" => (cycle.returned \/ cycle.pushed = <<>>)

\* The rows of the aggregated frame whose metric is NaN, and those whose
\* metric is a number
NaNRows(column) == SelectSeq(grouped, LAMBDA r : IsNaN(r[column]))
NumberRows(column) == SelectSeq(grouped, LAMBDA r : ~IsNaN(r[column]))

\* C21: a bin whose metric is NaN is left out of the stream's threshold
\* computation and is never flagged: in a stream that has NaN bins and other
\* bins the detector does not fail, the threshold of the stream is a number,
\* and the other bins are flagged exactly when they exceed it.
C21_NaNBinIsLeftOut ==
    ( /\ op \in DetectorOps
      /\ grouped \in NaNFrames
      /\ NumberRows(DetectorColumn) # <<>> ) =>
        /\ ~detected.raised
        /\ \A i \in 1..Len(detected.thresholds) :
                LET entry == detected.thresholds[i]
                IN  /\ ~IsNaN(entry.outcome.value)
                    /\ Column(RecordsOf(entry.key), "row") =
                            SelectSeq(group_of(grouped, entry.key), LAMBDA r :
                                /\ ~IsNaN(r[DetectorColumn])
                                /\ RGt(r[DetectorColumn], entry.outcome.value))


\* The integers nearest to x (both neighbours on an exact half)
nearest_integers(x) ==
    LET f == Floor(x)
        twice == RSub(RMul(x, RInt(2)), RInt(2 * f))
    IN  IF RLt(twice, RInt(1)) THEN {RInt(f)}
        ELSE IF RGt(twice, RInt(1)) THEN {RInt(f + 1)}
        ELSE {RInt(f), RInt(f + 1)}

\* The real-valued results of the path the count threshold computation took
real_valued_results ==
    CASE result.path = "whole" -> {np_percentile(sampled, args.qpm)}
      [] result.path = "normal" -> {np_percentile(result.normal_values, args.qpm)}
      [] result.path = "evt" ->
            {RAdd(np_percentile(result.normal_values, BaselinePercentile), q) :
                q \in genpareto_quantiles(
                        exceedances_above(result.normal_values,
                            np_percentile(result.normal_values, BaselinePercentile)))}
      [] OTHER -> {}

\* C22: on every path of the count threshold computation (both fallbacks and
\* the tail-fit path) the integer returned is the real-valued result of that
\* path rounded to the nearest integer.
C22_IntegerIsNearest ==
    ( /\ op = "count_threshold" /\ args.as_int /\ ~result.raised
      /\ result.path \in {"whole", "normal", "evt"} ) =>
        \E val \in real_valued_results : result.value \in nearest_integers(val)


\* u = np.percentile(normal_values, 90) of the returned outcome
baseline_of_result == np_percentile(result.normal_values, BaselinePercentile)

FitsOfResult ==
    {fit \in kmeans_fits(sampled) : normal_values_of(sampled, fit) = result.normal_values}

\* The centre of the cluster selected as normal, and of the other cluster
NormalCentre(fit) == fit.centers[normal_cluster_label(fit) + 1]
ElevatedCentre(fit) == fit.centers[(1 - normal_cluster_label(fit)) + 1]

Clustered == op = "count_threshold" /\ result.path \in {"whole", "normal", "evt", "fit_error"}

\* C24: for every non-empty sample the clustering accepts, the regime selected
\* as normal by the two-cluster split has a centroid less than or equal to the
\* centroid of the other (elevated) regime.
C24_NormalCentreIsLower ==
    Clustered =>
        /\ FitsOfResult # {}
        /\ \A fit \in FitsOfResult : RLe(NormalCentre(fit), ElevatedCentre(fit))

\* A split into two regimes with different centroids was made
C24_Witness ==
    /\ Clustered
    /\ \E fit \in FitsOfResult :
            /\ RLt(NormalCentre(fit), ElevatedCentre(fit))
            /\ fit.labels[1] # normal_cluster_label(fit)
            /\ Len(result.normal_values) > 0


\* The records of the log table that belong to a transaction
RecordsOfJourney(id) == SelectSeq(df, LAMBDA r : r.request_id = id)

\* The sum of the values a function gives on 1..n
RECURSIVE SumTo(_, _)
SumTo(f, n) == IF n = 0 THEN 0 ELSE f[n] + SumTo(f, n - 1)

\* The risk of a transaction, worked out from its records in the log table
RiskFromRecords(id) ==
    LET records == RecordsOfJourney(id)
        n == Len(records)
        response_time == SumTo([i \in 1..n |-> records[i].response_time_ms[1]], n)
        errors == Cardinality({i \in 1..n : records[i].error_flag = 1})
        environments == Cardinality({records[i].environment : i \in 1..n})
    IN  Rat(response_time + n * (100 * errors + 50 * (environments - 1)), n)

\* C25: for every transaction of the journey table the risk score equals
\* total_response_time_ms / total_requests + 100 * total_errors
\* + 50 * (distinct_environments - 1), with the totals taken over the
\* transaction's records; totals of 2 requests, 400 ms, 1 error and 2
\* environments give 350; total_requests is never 0.
C25_RiskScoreFormula ==
    op = "analyze_request_journeys" =>
        \A n \in 1..Len(journey_group) :
            LET j == journey_group[n]
            IN  /\ j.total_requests >= 1
                /\ j.total_requests = Len(RecordsOfJourney(j.request_id))
                /\ j.risk_score = RiskFromRecords(j.request_id)
                /\ ( /\ j.total_requests = 2 /\ j.total_response_time_ms = RInt(400)
                     /\ j.total_errors = 1 /\ j.distinct_environments = 2 )
                        => j.risk_score = RInt(350)

\* The journey of two requests, 400 ms, one error and two environments
C25_Witness ==
    /\ op = "analyze_request_journeys"
    /\ \E n \in 1..Len(journey_group) :
            LET j == journey_group[n]
            IN  /\ j.total_requests = 2 /\ j.total_response_time_ms = RInt(400)
                /\ j.total_errors = 1 /\ j.distinct_environments = 2
                /\ j.risk_score = RInt(350)


\* The window length a detector samples a stream with
DetectorWindow == IF op = "detect_spike" THEN SpikeWindow ELSE ErrorRateWindow

\* The samples a detector's threshold computation takes from a stream
StreamSamples(group) ==
    Column(sliding_window(group, DetectorWindow, DetectorColumn), "value")

\* The outcomes of a detector's threshold computation on given samples
OutcomesFromSamples(values) ==
    IF op = "detect_spike"
    THEN hybrid_avg_from_samples(values, SpikeQuantile)
    ELSE hybrid_from_samples(values, ErrorRateQuantile, FALSE)

\* The bins of a stream before its latest one
BeforeLatest(group) ==
    SelectSeq(group, LAMBDA r : r.timestamp_dt < ts_max(group))

\* The stream with the metrics of its latest bin replaced
WithLatest(group, kind) ==
    [i \in 1..Len(group) |->
        IF group[i].timestamp_dt = ts_max(group)
        THEN [group[i] EXCEPT !.avg_response_time = kind.avg_response_time,
                              !.error_rate = kind.error_rate]
        ELSE group[i]]

\* C26: no record whose timestamp equals the maximum of the sampled records
\* is in any sampler window (the windows over the stream are the windows over
\* its bins before the latest one); hence the threshold a detector computes
\* for a stream does not depend on the value of the stream's latest bin.
C26_LatestBinOutsideEveryWindow ==
    op \in DetectorOps =>
        \A i \in 1..Len(detected.thresholds) :
            LET entry == detected.thresholds[i]
                group == group_of(grouped, entry.key)
            IN  /\ sliding_window(group, DetectorWindow, DetectorColumn) =
                        sliding_loop(BeforeLatest(group), DetectorWindow * Minute,
                                     ts_max(group), ts_min(group), DetectorColumn)
                /\ \A kind \in BinKinds :
                        StreamSamples(WithLatest(group, kind)) = StreamSamples(group)
                /\ entry.outcome \in OutcomesFromSamples(StreamSamples(group))

\* A stream was sampled whose latest bin is slow and failing, after calm bins,
\* and whose threshold is the calm level
C26_Witness ==
    /\ op \in DetectorOps
    /\ \E i \in 1..Len(detected.thresholds) :
            LET entry == detected.thresholds[i]
                group == group_of(grouped, entry.key)
            IN  /\ sliding_window(group, DetectorWindow, DetectorColumn) # <<>>
                /\ group[Len(group)].avg_response_time = RInt(200)
                /\ \A n \in 1..(Len(group) - 1) :
                        group[n].avg_response_time = RInt(100)
                /\ ~entry.outcome.raised
                /\ RLt(entry.outcome.value, group[Len(group)][DetectorColumn])
                /\ RecordsOf(entry.key) # <<>>


----------------------------------------------------------------------------
(* Properties of the Warning and Critical tiers (SpecTiers) *)

TierOps == {"tiers_defined", "tiers_evaluated"}

\* C27: for the same batch, window and condition function the threshold
\* computed at the higher quantile is never lower than the one computed at the
\* lower quantile; therefore whenever the Critical rule (quantile 0.995) of a
\* metric triggers at a time, the Warning rule (quantile 0.99) of the same
\* metric and window triggers at that time too.
C27_CriticalImpliesWarning ==
    /\ op \in TierOps => RLe(rules[1].threshold, rules[2].threshold)
    /\ op = "tiers_evaluated" =>
            (report.results[2].triggered => report.results[1].triggered)

\* The Critical threshold is above the Warning threshold and both rules trigger
C27_Witness ==
    /\ op = "tiers_evaluated"
    /\ RLt(rules[1].threshold, rules[2].threshold)
    /\ report.results[2].triggered
    /\ report.results[1].triggered


\* The streams of the frame that have exactly min_intervals bins
ExactStreams ==
    {key \in SeqToSet(group_keys(grouped)) :
        Len(group_of(grouped, key)) = MinIntervals}

\* C28: in dynamic mode the pattern-change detector never flags a stream that
\* has exactly min_intervals bins: its only sub-window is the whole stream, so
\* the dynamic slope threshold equals the overall slope and the strict
\* comparison slope > threshold is false.
C28_ExactLengthStreamNeverFlagged ==
    op = "pattern_dynamic" =>
        \A key \in ExactStreams :
            /\ ComparedWith(key) # <<>>
            /\ ComparedWith(key)[1].outcome.value = SlopeOf(key)
            /\ RecordsOf(key) = <<>>

\* A stream of exactly min_intervals bins that rises steeply and
\* significantly was compared with its threshold
C28_Witness ==
    /\ op = "pattern_dynamic"
    /\ \E key \in ExactStreams :
            /\ ComparedWith(key) # <<>>
            /\ RGt(SlopeOf(key), RInt(0))
            /\ group_significant(group_of(grouped, key))
            /\ RecordsOf(key) = <<>>


----------------------------------------------------------------------------
(* Properties of the polling loop (SpecPollingLive) *)

\* C29: an exception raised inside one run_pipeline cycle (fetch,
\* aggregation, detection or push) never terminates the polling loop: after
\* every cycle, whether it returned or raised, the loop sleeps and eventually
\* starts the next cycle.
C29_LoopSurvivesEveryCycle ==
    /\ [](loop # "terminated")
    /\ (op = "run_pipeline") ~> (loop = "sleep")
    /\ (loop = "sleep") ~> (loop = "try")

\* The next cycle is about to start after a cycle whose push raised
C29_Witness ==
    /\ loop = "try"
    /\ op = "sleep"
    /\ ~cycle.returned
    /\ cycle.raised_in = "push"
    /\ cycle.pushed # <<>>


----------------------------------------------------------------------------
(* Properties of fetch_new_logs (SpecFetch) *)

\* last_fetch_time before the n-th call of fetch_new_logs
FetchTimeBefore(n) ==
    IF n = 1 THEN StartClock - FiveMinutes ELSE queries[n - 1].last_fetch_time

\* C30: across successive successful calls of fetch_new_logs the queried
\* ranges (last_fetch_time, now] are contiguous and non-overlapping: each
\* call's exclusive lower bound equals the previous call's inclusive upper
\* bound, last_fetch_time never decreases, and a call that raises leaves
\* last_fetch_time unchanged.
C30_RangesAreContiguous ==
    /\ \A n \in 1..Len(queries) :
        LET call == queries[n]
        IN  /\ call.query.gt = FetchTimeBefore(n)
            /\ call.query.gt <= call.query.lte
            /\ (n > 1 /\ ~queries[n - 1].raised) =>
                    call.query.gt = queries[n - 1].query.lte
            /\ call.last_fetch_time >= FetchTimeBefore(n)
            /\ call.raised => call.last_fetch_time = FetchTimeBefore(n)
    /\ last_fetch_time = FetchTimeBefore(Len(queries) + 1)

\* Two calls returned and a third raised
C30_Witness ==
    /\ Len(queries) = 3
    /\ ~queries[1].raised /\ ~queries[2].raised /\ queries[3].raised
    /\ queries[2].query.gt = queries[1].query.lte
    /\ queries[2].query.lte > queries[1].query.lte
    /\ last_fetch_time = queries[2].query.lte

====
